---- MODULE Spec2Model ----
(***************************************************************************)
(* Fact-extraction orchestration engine of fish-facts-and-data.            *)
(*                                                                         *)
(*   - the Validator: EpisodeSchema (scripts/utils/schemas.ts) and the     *)
(*     validate-and-persist tail of extractFactsFromEpisode;               *)
(*   - Execution Strategy B, the throttled synchronous executor            *)
(*     (extract-facts-sync: TokenTracker, prepareVttFile,                  *)
(*     extractFactsFromEpisode, extractFactsFromVtt);                      *)
(*   - Execution Strategy A, the batch orchestrator (extract-facts:        *)
(*     prepareVttFile, createAndSubmitBatch, waitForBatchCompletion,       *)
(*     downloadBatchResults, processBatchResults, extractFactsFromVtt).    *)
(*                                                                         *)
(* Time is in milliseconds, as in the source (Date.now(), setTimeout).     *)
(***************************************************************************)
EXTENDS Integers, Sequences, FiniteSets, TLC

VARIABLES
  \* ---- Validator pipeline (one model output) ----
  content,        \* response.choices[0].message.content, or NoContent
  obj,            \* the object handed to EpisodeSchema.parse, or NoObj
  parsedEpisode,  \* result of EpisodeSchema.parse(obj), or NoResult
  written         \* the file writeJson(outputPath, parsedEpisode) stored, or NoFile

VARIABLES
  \* ---- the episode store and the run (both strategies) ----
  facts,          \* facts[e]: the file <episode dir e>/facts.json
  run,            \* number of extractFactsFromVtt calls started so far
  force,          \* the force argument of the current call
  pc,             \* control point of the current call
  i,              \* loop index over vttPaths (1-based)
  ok, fail, skipped,   \* the tallies of the current call
  clock,          \* Date.now()
  timer           \* duration of the pending setTimeout

VARIABLES
  \* ---- throttled executor ----
  tokensUsed,     \* TokenTracker.tokensUsed
  estimatedTokens,\* estimate of the episode being processed
  attempt,        \* loop variable of extractFactsFromEpisode
  success         \* result of extractFactsFromEpisode

VARIABLES
  \* ---- history (not program state) ----
  reqs,           \* reqs[e]: service requests issued for e in this call
  wrote,          \* wrote[e]: completed facts.json writes for e in this call
  tally,          \* tally[e]: how this call counted e
  prev,           \* force / wrote of the previous call
  attemptLog,     \* outcome class of each request of the current episode
  sleepLog,       \* backoff slept after each failed request of the episode
  addLog          \* every entry ever pushed to this call's TokenTracker

VARIABLES
  \* ---- batch orchestrator ----
  batchRequests,  \* custom ids of the requests built so far, in order
  fileMap,        \* custom id -> episode whose facts.json is the output path
  jobStatus,      \* status of the batch job at the service ("none" before)
  lastSeen,       \* batch.status of the latest retrieve ("none" before)
  batchResults,   \* the records downloadBatchResults returned
  cursor,         \* position of processBatchResults in batchResults
  thrown,         \* error that ended the call: "none", "job" or "api"
  polls,          \* retrieve calls of waitForBatchCompletion        (history)
  sinceSleep,     \* retrieve calls since the last 30 s sleep         (history)
  downloaded,     \* downloadBatchResults fetched the result file     (history)
  factsAtStart    \* the episode store when the call began            (history)

VARIABLES
  \* ---- the process: environment and entry point ----
  apiKey,         \* process.env.OPENAI_API_KEY is set
  entry,          \* the script whose main() runs: "none" when the executor
                  \* is called on its own
  exitCode,       \* exit status of the process, -1 while it runs
  statsFailed,    \* stats.failed of process-episodes
  reported,       \* the closing summary of main() was logged
  preWork         \* the files main() wrote before calling extractFactsFromVtt

VARIABLES
  \* ---- Episode Classifier and routing (one episode of process-episodes) ----
  metadata,       \* metadata.json of the episode
  routed,         \* what main() did with the episode, or NoRoute
  \* ---- the --limit option ----
  argv,           \* what follows "--limit" on the command line, or NoFlag
  toProcess       \* episodesToProcess, or NotSliced

VARIABLES
  \* ---- Transcript Normalizer (one transcript) ----
  cues,           \* the cues the subtitle parser returned
  rows,           \* the records prepareVttFile built from them, or NoRows
  again           \* the records built from the cues parsed back from the dumps

VARIABLES
  \* ---- discovery ----
  processed,      \* index.processed: ids in src/data/episodes/index.json
  transcripts,    \* episodes whose directory holds transcript.vtt
  selected        \* episodes the latest run selected for extraction

VARIABLES
  \* ---- retry-facts: one call of retryFactExtraction ----
  retry           \* how far the call has come, and what it returned

VARIABLES
  \* ---- audio download: one call of downloadAudio ----
  audio,          \* the file at path.join(AUDIO_DIR, filename)
  dl              \* the call: its position, attempt, fetches, sleeps, result

cvars == <<metadata, routed, argv, toProcess>>
qvars == <<retry, audio, dl>>
nvars == <<cues, rows, again>>
lvars == <<processed, transcripts, selected>>
xvars == <<cvars, nvars, lvars, qvars>>
vvars == <<content, obj, parsedEpisode, written>>
pvars == <<apiKey, entry, exitCode, statsFailed, reported, preWork>>
bvars == <<batchRequests, fileMap, jobStatus, lastSeen, batchResults, cursor,
           thrown, polls, sinceSleep, downloaded, factsAtStart>>
rvars == <<facts, run, force, pc, i, ok, fail, skipped, clock, timer>>
tvars == <<tokensUsed, estimatedTokens, attempt, success>>
hvars == <<reqs, wrote, tally, prev, attemptLog, sleepLog, addLog>>

vars == <<vvars, rvars, tvars, hvars, bvars, pvars, xvars>>

(***************************************************************************)
(* Values                                                                  *)
(***************************************************************************)
Absent   == "ABSENT"             \* a missing property of an object
NoObj    == [none |-> TRUE]     \* no object under validation
NoResult == [done |-> FALSE]    \* EpisodeSchema.parse has not run
NoFile   == [exists |-> FALSE]  \* a path at which no file exists
NoContent == [form |-> "none", body |-> NoObj]   \* no response received
NoMetadata == [none |-> TRUE]   \* no episode under classification
NoRoute  == [done |-> FALSE]    \* the episode has not been routed
NoFlag   == [flag |-> FALSE]    \* "--limit" is not among the arguments
\* episodesToProcess has not been computed from the candidate list
NotSliced(candidates) == [done |-> FALSE, candidates |-> candidates]
NoRows   == [done |-> FALSE]    \* prepareVttFile has not run
File(data) == [exists |-> TRUE, data |-> data]

EpisodeTypes == {"standard", "compilation", "bonus", "other"}

\* z.number().int().min(1).max(4)
FactNumberMin == 1
FactNumberMax == 4
\* facts.length the superRefine rules compare with
StandardFactCount == 4

\* ---- bounds of the validator inputs ----
MaxFacts == 5

\* A string property of the object: missing, the empty string, or some text.
StrVals == {Absent, "", "text"}

GoodTime == "00:37:02"
StartTimes == {GoodTime, "unknown", "37:02"}

Fact(n, t) == [fact_number |-> n, start_time |-> t]

\* Facts whose fact_number ranges one below and one above the schema's range.
FactInputs == {Fact(n, GoodTime) : n \in (FactNumberMin - 1)..(FactNumberMax + 1)}

SeqsUpTo(S, n) == UNION {[1..k -> S] : k \in 0..n}

Rec(num, title, type, summary, factList) ==
  [episode_number |-> num, episode_title |-> title, episode_type |-> type,
   episode_summary |-> summary, facts |-> factList]

\* Representative fact lists used where the string properties vary.
SampleFacts ==
  { <<>>,
    <<Fact(1, GoodTime), Fact(2, GoodTime), Fact(3, GoodTime)>>,
    <<Fact(1, GoodTime), Fact(2, "unknown"), Fact(3, GoodTime), Fact(4, GoodTime)>>,
    <<Fact(4, GoodTime), Fact(2, GoodTime), Fact(1, GoodTime), Fact(3, GoodTime)>>,
    <<Fact(1, GoodTime), Fact(2, GoodTime), Fact(4, GoodTime), Fact(4, GoodTime)>>,
    <<Fact(1, GoodTime), Fact(2, "37:02"), Fact(3, GoodTime), Fact(4, GoodTime)>>,
    <<Fact(1, GoodTime), Fact(2, GoodTime), Fact(3, GoodTime), Fact(4, GoodTime),
      Fact(1, GoodTime)>> }

\* Objects offered to the Validator: every fact list up to MaxFacts with
\* well-formed strings, and every combination of string properties with a
\* representative fact list.
InputObjects ==
  {Rec("text", "text", ty, "text", fs) :
      ty \in EpisodeTypes, fs \in SeqsUpTo(FactInputs, MaxFacts)}
  \cup
  {Rec(n, t, ty, s, fs) :
      n \in StrVals, t \in StrVals, ty \in EpisodeTypes, s \in StrVals,
      fs \in SampleFacts}

(***************************************************************************)
(* schemas.ts                                                              *)
(***************************************************************************)
\* StartTimeSchema: /^(\d{2}:\d{2}:\d{2}|unknown)$/
StartTimeSchema(t) == t \in {GoodTime, "unknown"}

\* FactSchema: issues of one fact (paths below "facts").
FactSchema(f) ==
  (IF f.fact_number >= FactNumberMin /\ f.fact_number <= FactNumberMax
     THEN {} ELSE {"facts[].fact_number"})
  \cup (IF StartTimeSchema(f.start_time) THEN {} ELSE {"facts[].start_time"})

\* z.string().min(1) on a property: a missing property is a type issue.
StringMin1(v) == v # Absent /\ v # ""

\* Issues of the z.object({...}) part of EpisodeSchema.
ObjectIssues(o) ==
  (IF StringMin1(o.episode_number) THEN {} ELSE {"episode_number"})
  \cup (IF StringMin1(o.episode_title) THEN {} ELSE {"episode_title"})
  \cup (IF o.episode_type \in EpisodeTypes THEN {} ELSE {"episode_type"})
  \cup (IF StringMin1(o.episode_summary) THEN {} ELSE {"episode_summary"})
  \cup UNION {FactSchema(o.facts[k]) : k \in 1..Len(o.facts)}

\* A type-level issue (a required property missing) aborts the object parse:
\* zod then returns without running the refinement chained on the object.
\* Value-level issues (min, max, regex) leave the parse dirty and the
\* refinement still runs.
ObjectAborted(o) ==
  \/ o.episode_number = Absent
  \/ o.episode_title = Absent
  \/ o.episode_summary = Absent
  \/ o.episode_type \notin EpisodeTypes

FactNumbers(o) == {o.facts[k].fact_number : k \in 1..Len(o.facts)}

\* Plausible slips in the length rule: "fewer than 4" instead of "not 4" for a
\* standard episode; no rule at all for the other episode types.
LengthRuleIssues_AtLeast(o) ==
  IF o.episode_type = "standard"
    THEN IF Len(o.facts) < StandardFactCount THEN {"facts"} ELSE {}
    ELSE IF ~(Len(o.facts) = 0 \/ Len(o.facts) = StandardFactCount)
           THEN {"facts"} ELSE {}

LengthRuleIssues_StandardOnly(o) ==
  IF o.episode_type = "standard"
    THEN IF Len(o.facts) # StandardFactCount THEN {"facts"} ELSE {}
    ELSE {}

\* The first rule of superRefine: the length rule for the episode type.
LengthRuleIssues(o) ==
  IF o.episode_type = "standard"
    THEN IF Len(o.facts) # StandardFactCount THEN {"facts"} ELSE {}
    ELSE IF ~(Len(o.facts) = 0 \/ Len(o.facts) = StandardFactCount)
           THEN {"facts"} ELSE {}

\* A plausible slip in the numbering rule: demanding the facts in order.
NumberingRuleIssues_InOrder(o) ==
  IF Len(o.facts) = StandardFactCount
    THEN IF \E k \in 1..Len(o.facts) : o.facts[k].fact_number # k
           THEN {"facts"} ELSE {}
    ELSE {}

\* The second rule of superRefine: numbering of a 4-fact list.
NumberingRuleIssues(o) ==
  IF Len(o.facts) = StandardFactCount
    THEN IF ~(\A n \in FactNumberMin..FactNumberMax : n \in FactNumbers(o))
            \/ Cardinality(FactNumbers(o)) # StandardFactCount
           THEN {"facts"} ELSE {}
    ELSE {}

superRefine(o) == LengthRuleIssues(o) \cup NumberingRuleIssues(o)

\* EpisodeSchema.parse(obj): the issue paths; the parse throws iff there is one.
EpisodeSchemaIssues(o) ==
  ObjectIssues(o) \cup (IF ObjectAborted(o) THEN {} ELSE superRefine(o))

EpisodeSchemaParse(o) ==
  [done |-> TRUE, ok |-> EpisodeSchemaIssues(o) = {},
   issues |-> EpisodeSchemaIssues(o), value |-> o]

\* extractFactsFromEpisode / processBatchResults: "Additional constraint:
\* standard must have 4" applied to the parsed episode before writeJson.
AdditionalConstraint(p) ==
  ~(p.episode_type = "standard" /\ Len(p.facts) # StandardFactCount)

\* The record passes validation and may be written.
Accepts(o) == EpisodeSchemaParse(o).ok /\ AdditionalConstraint(o)

(***************************************************************************)
(* Bounds and inputs of the executors                                      *)
(***************************************************************************)
NumEpisodes == 2          \* length of vttPaths
MaxRuns == 2              \* extractFactsFromVtt calls in one behaviour
MaxClock == 200000        \* the clock is not advanced beyond this
LargeCsvChars == 4792000  \* csv.length of a long transcript
SmallCsvChars == 2392000  \* csv.length of a shorter transcript
RequestMs == 20000        \* duration of one service round trip

Episodes == 1..NumEpisodes
CsvLengths == {SmallCsvChars, LargeCsvChars}

\* Program constants
MaxTPM == 2000000         \* TokenTracker constructor default
WindowMs == 60000         \* cleanup cutoff
Retries == 3              \* extractFactsFromEpisode retries
PromptOverhead == 2000    \* "CSV + prompt + response"
CharsPerToken == 4        \* estimateTokens
RateLimitStatus == 429

\* this.maxTPM = maxTPM * this.safetyMargin (0.9)
Capacity == (MaxTPM * 9) \div 10

CeilDiv(a, b) == (a + b - 1) \div b
Max(a, b) == IF a >= b THEN a ELSE b

RECURSIVE SumTokens(_)
SumTokens(s) == IF s = <<>> THEN 0 ELSE Head(s).tokens + SumTokens(Tail(s))

\* Objects a model response may carry.
Numbered(ns) == [k \in 1..Len(ns) |-> Fact(ns[k], GoodTime)]
GoodStandard == Rec("text", "text", "standard", "text", Numbered(<<1, 2, 3, 4>>))
\* conforms to the request's response schema: no episode_number / episode_title
SchemaConformant == Rec(Absent, Absent, "standard", "text", Numbered(<<1, 2, 3, 4>>))
ThreeFacts == Rec("text", "text", "standard", "text", Numbered(<<1, 2, 3>>))
MissingThree == Rec("text", "text", "standard", "text", Numbered(<<1, 2, 4, 4>>))
EmptyBonus == Rec("text", "text", "bonus", "text", <<>>)
ResponseObjects == {GoodStandard, SchemaConformant, ThreeFacts, MissingThree, EmptyBonus}

\* The content of a model message: empty, not JSON at all, raw JSON, or JSON
\* inside a fenced code block.
ModelTexts ==
  {[form |-> "empty", body |-> NoObj], [form |-> "garbage", body |-> NoObj]}
  \cup {[form |-> "raw", body |-> o] : o \in ResponseObjects}
  \cup {[form |-> "fenced", body |-> GoodStandard]}

\* Outcomes of client.chat.completions.create: an HTTP error or a message.
ServiceOutcomes ==
  {[kind |-> "error", status |-> st, text |-> [form |-> "empty", body |-> NoObj]] :
      st \in {RateLimitStatus, 500}}
  \cup {[kind |-> "message", status |-> 200, text |-> t] : t \in ModelTexts}

\* Outcomes of fs.writeFile: done, or rejected leaving the path as it was, or
\* rejected after the file was truncated / partly written.
WriteOutcomes == {"written", "rejected", "rejected_partial"}
PartialFile == [exists |-> TRUE, data |-> [partial |-> TRUE]]

(***************************************************************************)
(* utils/text.ts: extractJson                                              *)
(***************************************************************************)
\* A text is read as a sequence of segments: a fence (three backquotes with
\* an optional "json" tag), prose without braces, a stray brace, the JSON
\* text of an object, or the JSON text of a scalar. White space around
\* segments is not represented.
Fence == [kind |-> "fence"]
Prose == [kind |-> "prose"]
Open  == [kind |-> "open"]
Close == [kind |-> "close"]
Json(o) == [kind |-> "json", value |-> o]
ScalarValue == [scalar |-> 42]
Scalar == [kind |-> "scalar", value |-> ScalarValue]

\* The segments of a message content, by its form.
SegmentsOf(text) ==
  CASE text.form = "raw" -> <<Json(text.body)>>
    [] text.form = "fenced" -> <<Fence, Json(text.body), Fence>>
    [] text.form = "garbage" -> <<Prose>>
    [] text.form = "segments" -> text.segs
    [] OTHER -> <<>>

Failed == [ok |-> FALSE, value |-> NoObj]

\* JSON.parse: succeeds on exactly one JSON text, fails on anything else.
JSONparse(segs) ==
  IF Len(segs) = 1 /\ segs[1].kind \in {"json", "scalar"}
  THEN [ok |-> TRUE, value |-> segs[1].value]
  ELSE Failed

Positions(segs, kinds) == {k \in 1..Len(segs) : segs[k].kind \in kinds}
Least(S) == CHOOSE x \in S : \A y \in S : x <= y
Greatest(S) == CHOOSE x \in S : \A y \in S : x >= y

\* text.match(/```(?:json)?\s*([\s\S]*?)```/i): the leftmost fence and the
\* nearest fence after it; group 1 is what lies between them.
codeBlockMatch(segs) ==
  LET f == Positions(segs, {"fence"})
  IN  IF Cardinality(f) >= 2
      THEN [found |-> TRUE,
            group |-> SubSeq(segs, Least(f) + 1, Least(f \ {Least(f)}) - 1)]
      ELSE [found |-> FALSE, group |-> <<>>]

\* text.indexOf("{") and text.lastIndexOf("}"), with "start >= 0 && end >
\* start", and the slice between them; an object's JSON text starts with "{"
\* and ends with "}".
braceSlice(segs) ==
  LET opens == Positions(segs, {"open", "json"})
      closes == Positions(segs, {"close", "json"})
  IN  IF opens # {} /\ closes # {} /\ Greatest(closes) >= Least(opens)
      THEN [found |-> TRUE, slice |-> SubSeq(segs, Least(opens), Greatest(closes))]
      ELSE [found |-> FALSE, slice |-> <<>>]

\* a variant that tries the brace slice before the fenced block
extractJson_BracesFirst(text) ==
  LET segs == SegmentsOf(text) IN
  IF JSONparse(segs).ok THEN JSONparse(segs)
  ELSE IF braceSlice(segs).found /\ JSONparse(braceSlice(segs).slice).ok
       THEN JSONparse(braceSlice(segs).slice)
  ELSE IF codeBlockMatch(segs).found /\ JSONparse(codeBlockMatch(segs).group).ok
       THEN JSONparse(codeBlockMatch(segs).group)
  ELSE Failed

\* ok = FALSE stands for the thrown "Could not parse JSON from model output"
extractJson(text) ==
  LET segs == SegmentsOf(text) IN
  IF JSONparse(segs).ok THEN JSONparse(segs)
  ELSE IF codeBlockMatch(segs).found /\ JSONparse(codeBlockMatch(segs).group).ok
       THEN JSONparse(codeBlockMatch(segs).group)
  ELSE IF braceSlice(segs).found /\ JSONparse(braceSlice(segs).slice).ok
       THEN JSONparse(braceSlice(segs).slice)
  ELSE Failed

(***************************************************************************)
(* TokenTracker                                                            *)
(***************************************************************************)
\* a variant that keeps an entry that is exactly 60 s old
cleanup_KeepsBoundary(used, now) == SelectSeq(used, LAMBDA t : t.timestamp >= now - WindowMs)

\* cleanup(): keep the entries with timestamp > Date.now() - 60000
cleanup(used, now) == SelectSeq(used, LAMBDA t : t.timestamp > now - WindowMs)

\* getUsage(): cleanup, then the sum of the tokens
getUsage(used, now) == SumTokens(cleanup(used, now))

\* A plausible slip: the request's own tokens left out of the comparison.
canAdd_IgnoresRequest(tokens, used, now) == getUsage(used, now) <= Capacity

\* canAdd(tokens)
canAdd(tokens, used, now) == getUsage(used, now) + tokens <= Capacity

\* a variant that rounds the seconds down
CapacityWaitMs_RoundsDown(tokens, used, now) ==
  Max(1000, ((getUsage(used, now) + tokens - Capacity) \div (Capacity \div 60)) * 1000)

\* waitForCapacity: the sleep of one loop iteration, in ms
CapacityWaitMs(tokens, used, now) ==
  Max(1000, CeilDiv(getUsage(used, now) + tokens - Capacity, Capacity \div 60) * 1000)

\* add(tokens): push, then cleanup
add(tokens, used, now) ==
  cleanup(Append(used, [timestamp |-> now, tokens |-> tokens]), now)

\* estimateTokens(csv) + 2000
EstimateRequest(csvLength) == CeilDiv(csvLength, CharsPerToken) + PromptOverhead

(***************************************************************************)
(* The run: extractFactsFromVtt (throttled executor)                       *)
(***************************************************************************)
NoPrev == [force |-> FALSE, wrote |-> [e \in Episodes |-> 0], ran |-> FALSE]

InitRun ==
  /\ facts = [e \in Episodes |-> NoFile]
  /\ run = 0
  /\ force = FALSE
  /\ pc = "idle"
  /\ i = 1
  /\ ok = 0 /\ fail = 0 /\ skipped = 0
  /\ clock = 0
  /\ timer = 0
  /\ tokensUsed = <<>>
  /\ estimatedTokens = 0
  /\ attempt = 0
  /\ success = FALSE
  /\ reqs = [e \in Episodes |-> 0]
  /\ wrote = [e \in Episodes |-> 0]
  /\ tally = [e \in Episodes |-> "none"]
  /\ prev = NoPrev
  /\ attemptLog = <<>>
  /\ sleepLog = <<>>
  /\ addLog = <<>>
  /\ batchRequests = <<>>
  /\ fileMap = {}
  /\ jobStatus = "none"
  /\ lastSeen = "none"
  /\ batchResults = <<>>
  /\ cursor = 1
  /\ thrown = "none"
  /\ polls = 0
  /\ sinceSleep = 0
  /\ downloaded = FALSE
  /\ factsAtStart = [e \in Episodes |-> NoFile]
  /\ entry = "none"
  /\ exitCode = -1
  /\ statsFailed = 0
  /\ reported = FALSE
  /\ preWork = {}
  /\ processed = {}
  /\ transcripts = {}
  /\ selected = {}

\* retryFactExtraction and downloadAudio have not been called.
NoRetry == [stage |-> "idle"]
NoDownload == [stage |-> "idle"]

InitRetryIdle == retry = NoRetry

InitDownloadIdle == audio = NoFile /\ dl = NoDownload

\* Nothing is being classified, sliced, normalized or validated.
InitClassifierIdle ==
  /\ metadata = NoMetadata
  /\ routed = NoRoute
  /\ argv = NoFlag
  /\ toProcess = NotSliced(<<>>)

InitNormalizerIdle ==
  /\ cues = <<>>
  /\ rows = NoRows
  /\ again = NoRows

InitValidatorIdle ==
  /\ content = NoContent
  /\ obj = NoObj
  /\ parsedEpisode = NoResult
  /\ written = NoFile

Init ==
  /\ content = NoContent
  /\ obj = NoObj
  /\ parsedEpisode = NoResult
  /\ written = NoFile
  /\ apiKey \in BOOLEAN
  /\ InitRun
  /\ InitRetryIdle
  /\ InitDownloadIdle
  /\ InitClassifierIdle
  /\ InitNormalizerIdle

\* "if (!process.env.OPENAI_API_KEY) throw": the first statement of
\* extractFactsFromVtt in both strategies, before anything is read or built.
MissingCredential ==
  /\ pc \in {"idle", "returned", "threw", "killed"}
  /\ run < MaxRuns
  /\ ~apiKey
  /\ run' = run + 1
  /\ pc' = "threw"
  /\ thrown' = "credential"
  /\ UNCHANGED <<facts, force, i, ok, fail, skipped, clock, timer, tvars, vvars,
                 pvars, xvars, hvars, batchRequests, fileMap, jobStatus, lastSeen,
                 batchResults, cursor, polls, sinceSleep, downloaded, factsAtStart>>

\* A call of extractFactsFromVtt(vttPaths, outputDirs, force) begins: a new
\* TokenTracker, zeroed tallies.
StartRun ==
  /\ pc \in {"idle", "returned", "killed"}
  /\ apiKey
  /\ run < MaxRuns
  /\ run' = run + 1
  /\ force' \in BOOLEAN
  /\ pc' = "prepare"
  /\ i' = 1
  /\ ok' = 0 /\ fail' = 0 /\ skipped' = 0
  /\ tokensUsed' = <<>>
  /\ estimatedTokens' = 0
  /\ attempt' = 0
  /\ success' = FALSE
  /\ timer' = 0
  /\ prev' = [force |-> force, wrote |-> wrote, ran |-> (run > 0)]
  /\ reqs' = [e \in Episodes |-> 0]
  /\ wrote' = [e \in Episodes |-> 0]
  /\ tally' = [e \in Episodes |-> "none"]
  /\ attemptLog' = <<>>
  /\ sleepLog' = <<>>
  /\ addLog' = <<>>
  /\ clock' = 0        \* time is counted from the start of the call
  /\ UNCHANGED <<facts, vvars, pvars, xvars, bvars>>

\* A plausible slip in the gate: the existence test dropped.
Gated_NoExistenceTest(e, f) == FALSE

\* prepareVttFile, "Check if output already exists and skip unless forced"
Gated(e, f) == ~f /\ facts[e].exists

\* A plausible slip: the skipped episode is passed over without counting it.
PrepareSkip_NotCounted ==
  /\ pc = "prepare"
  /\ i <= NumEpisodes
  /\ \E vtt \in {"ok", "unreadable", "unparsable"} :
        Gated(i, force) \/ vtt # "ok"
  /\ tally' = [tally EXCEPT ![i] = "skipped"]
  /\ i' = i + 1
  /\ UNCHANGED <<facts, run, force, pc, ok, fail, skipped, clock, timer, tvars, vvars, pvars,
                 xvars, bvars, reqs, wrote, prev, attemptLog, sleepLog, addLog>>

\* prepareVttFile(vttPath, outputDir, force) for episode i, and the caller's
\* "if (!prepared) { skipped++; continue; }". The transcript may be
\* unreadable or unparsable; otherwise it yields a csv of some length.
PrepareSkip ==
  /\ pc = "prepare"
  /\ i <= NumEpisodes
  /\ \E vtt \in {"ok", "unreadable", "unparsable"} :
        Gated(i, force) \/ vtt # "ok"
  /\ skipped' = skipped + 1
  /\ tally' = [tally EXCEPT ![i] = "skipped"]
  /\ i' = i + 1
  /\ UNCHANGED <<facts, run, force, pc, ok, fail, clock, timer, tvars, vvars, pvars, xvars, bvars,
                 reqs, wrote, prev, attemptLog, sleepLog, addLog>>

PrepareOk ==
  /\ pc = "prepare"
  /\ i <= NumEpisodes
  /\ ~Gated(i, force)
  /\ \E len \in CsvLengths : estimatedTokens' = EstimateRequest(len)
  /\ pc' = "wait"
  /\ UNCHANGED <<facts, run, force, i, ok, fail, skipped, clock, timer,
                 tokensUsed, attempt, success, vvars, pvars, xvars, bvars, hvars>>

\* waitForCapacity: one evaluation of the loop condition. With capacity the
\* call returns and extractFactsFromEpisode starts (attempt = 1); without,
\* a timer is set.
WaitForCapacity ==
  /\ pc = "wait"
  /\ tokensUsed' = cleanup(tokensUsed, clock)
  /\ IF canAdd(estimatedTokens, tokensUsed, clock)
       THEN /\ pc' = "request"
            /\ attempt' = 1
            /\ timer' = 0
       ELSE /\ pc' = "sleep"
            /\ timer' = CapacityWaitMs(estimatedTokens, tokensUsed, clock)
            /\ UNCHANGED attempt
  /\ UNCHANGED <<facts, run, force, i, ok, fail, skipped, clock,
                 estimatedTokens, success, vvars, pvars, xvars, bvars, hvars>>

\* The setTimeout of waitForCapacity fires.
CapacitySleep ==
  /\ pc = "sleep"
  /\ clock + timer <= MaxClock
  /\ clock' = clock + timer
  /\ timer' = 0
  /\ pc' = "wait"
  /\ UNCHANGED <<facts, run, force, i, ok, fail, skipped, tvars, vvars, pvars, xvars, bvars, hvars>>

\* A plausible slip: the exponent counted from zero.
BackoffMs_FromZero(a) == (2 ^ (a - 1)) * 1000

\* Math.pow(2, attempt) * 1000
BackoffMs(a) == (2 ^ a) * 1000

\* The catch block of extractFactsFromEpisode decides what follows a failed
\* attempt: "backoff" (sleep, then the next attempt), "next" (the next attempt
\* at once) or "giveup" (return false).
AfterFailure_NoRetry(isRateLimit, a) ==
  IF isRateLimit /\ a < Retries THEN "backoff" ELSE "giveup"

AfterFailure_AlwaysRetry(isRateLimit, a) ==
  IF isRateLimit THEN "backoff" ELSE IF a = Retries THEN "giveup" ELSE "next"

AfterFailure(isRateLimit, a) ==
  IF isRateLimit /\ a < Retries THEN "backoff"
  ELSE IF a = Retries THEN "giveup"
  ELSE "next"

\* What one attempt does with the service outcome, up to and including
\* writeJson: "ok", or the class of the error thrown: "rate" for status 429,
\* "invalid" for a ZodError or the four-facts rule, "other" for the rest.
AttemptResult(out, w) ==
  IF out.kind = "error"
    THEN IF out.status = RateLimitStatus THEN "rate" ELSE "other"
  ELSE IF out.text.form = "empty" THEN "other"
  ELSE IF ~extractJson(out.text).ok THEN "other"
  ELSE IF ~EpisodeSchemaParse(extractJson(out.text).value).ok THEN "invalid"
  ELSE IF ~AdditionalConstraint(extractJson(out.text).value) THEN "invalid"
  ELSE IF w # "written" THEN "other"
  ELSE "ok"

\* Whether the attempt reached writeJson.
ReachedWrite(out) ==
  /\ out.kind = "message"
  /\ extractJson(out.text).ok
  /\ EpisodeSchemaParse(extractJson(out.text).value).ok
  /\ AdditionalConstraint(extractJson(out.text).value)

\* One iteration of the retry loop of extractFactsFromEpisode: the request,
\* and everything done with its outcome.
Attempt ==
  /\ pc = "request"
  /\ \E out \in ServiceOutcomes, w \in WriteOutcomes :
       LET res == AttemptResult(out, w)
           nxt == AfterFailure(res = "rate", attempt)
       IN
       /\ clock + RequestMs <= MaxClock
       /\ clock' = clock + RequestMs
       /\ reqs' = [reqs EXCEPT ![i] = @ + 1]
       /\ attemptLog' = Append(attemptLog, res)
       /\ facts' = IF ~ReachedWrite(out) THEN facts
                   ELSE IF w = "written"
                     THEN [facts EXCEPT ![i] = File(extractJson(out.text).value)]
                   ELSE IF w = "rejected_partial"
                     THEN [facts EXCEPT ![i] = PartialFile]
                   ELSE facts
       /\ wrote' = IF res = "ok" THEN [wrote EXCEPT ![i] = @ + 1] ELSE wrote
       /\ IF res = "ok"
            THEN /\ success' = TRUE
                 /\ pc' = "tally"
                 /\ UNCHANGED <<attempt, timer, sleepLog>>
            ELSE CASE nxt = "backoff" ->
                        /\ timer' = BackoffMs(attempt)
                        /\ pc' = "backoff"
                        /\ UNCHANGED <<attempt, success, sleepLog>>
                   [] nxt = "next" ->
                        /\ attempt' = attempt + 1
                        /\ sleepLog' = Append(sleepLog, 0)
                        /\ pc' = IF attempt + 1 <= Retries THEN "request" ELSE "tally"
                        /\ success' = FALSE
                        /\ UNCHANGED timer
                   [] OTHER ->
                        /\ success' = FALSE
                        /\ sleepLog' = Append(sleepLog, 0)
                        /\ pc' = "tally"
                        /\ UNCHANGED <<attempt, timer>>
  /\ UNCHANGED <<run, force, i, ok, fail, skipped, tokensUsed, estimatedTokens,
                 vvars, pvars, xvars, bvars, tally, prev, addLog>>

\* The backoff setTimeout fires; "continue" starts the next attempt.
BackoffSleep ==
  /\ pc = "backoff"
  /\ clock + timer <= MaxClock
  /\ clock' = clock + timer
  /\ sleepLog' = Append(sleepLog, timer)
  /\ timer' = 0
  /\ attempt' = attempt + 1
  /\ pc' = IF attempt + 1 <= Retries THEN "request" ELSE "tally"
  /\ success' = FALSE
  /\ UNCHANGED <<facts, run, force, i, ok, fail, skipped, tokensUsed,
                 estimatedTokens, vvars, pvars, xvars, bvars, reqs, wrote, tally, prev, attemptLog,
                 addLog>>

\* A plausible slip: a failed episode ends the loop.
Tally_AbortsOnFailure ==
  /\ pc = "tally"
  /\ IF success THEN ok' = ok + 1 /\ UNCHANGED fail
                ELSE fail' = fail + 1 /\ UNCHANGED ok
  /\ tally' = [tally EXCEPT ![i] = IF success THEN "ok" ELSE "fail"]
  /\ tokensUsed' = add(estimatedTokens, tokensUsed, clock)
  /\ addLog' = Append(addLog, [timestamp |-> clock, tokens |-> estimatedTokens])
  /\ i' = IF success THEN i + 1 ELSE NumEpisodes + 1
  /\ pc' = "prepare"
  /\ estimatedTokens' = 0 /\ attempt' = 0 /\ success' = FALSE
  /\ attemptLog' = <<>> /\ sleepLog' = <<>>
  /\ UNCHANGED <<facts, run, force, skipped, clock, timer, vvars, pvars, xvars, bvars, reqs, wrote,
                 prev>>

\* A plausible slip: the usage of the finished episode is not recorded.
Tally_UsageNotRecorded ==
  /\ pc = "tally"
  /\ IF success THEN ok' = ok + 1 /\ UNCHANGED fail
                ELSE fail' = fail + 1 /\ UNCHANGED ok
  /\ tally' = [tally EXCEPT ![i] = IF success THEN "ok" ELSE "fail"]
  /\ i' = i + 1
  /\ pc' = "prepare"
  /\ estimatedTokens' = 0 /\ attempt' = 0 /\ success' = FALSE
  /\ attemptLog' = <<>> /\ sleepLog' = <<>>
  /\ UNCHANGED <<facts, run, force, skipped, clock, timer, vvars, pvars, xvars, bvars, reqs, wrote,
                 prev, tokensUsed, addLog>>

\* Back in extractFactsFromVtt: ok++ or fail++, then tokenTracker.add.
Tally ==
  /\ pc = "tally"
  /\ IF success THEN ok' = ok + 1 /\ UNCHANGED fail
                ELSE fail' = fail + 1 /\ UNCHANGED ok
  /\ tally' = [tally EXCEPT ![i] = IF success THEN "ok" ELSE "fail"]
  /\ tokensUsed' = add(estimatedTokens, tokensUsed, clock)
  /\ addLog' = Append(addLog, [timestamp |-> clock, tokens |-> estimatedTokens])
  /\ i' = i + 1
  /\ pc' = "prepare"
  \* the locals of the finished iteration go out of scope
  /\ estimatedTokens' = 0 /\ attempt' = 0 /\ success' = FALSE
  /\ attemptLog' = <<>> /\ sleepLog' = <<>>
  /\ UNCHANGED <<facts, run, force, skipped, clock, timer, vvars, pvars, xvars, bvars, reqs, wrote,
                 prev>>

\* return { ok, fail, skipped }
Return ==
  /\ pc = "prepare"
  /\ i > NumEpisodes
  /\ pc' = "returned"
  \* the call's TokenTracker goes out of scope
  /\ tokensUsed' = <<>>
  /\ addLog' = <<>>
  /\ UNCHANGED <<facts, run, force, i, ok, fail, skipped, clock, timer,
                 estimatedTokens, attempt, success, vvars, pvars, xvars, bvars, reqs, wrote, tally,
                 prev, attemptLog, sleepLog>>

\* The process is terminated at some point of the call. Everything in memory
\* is gone; the files stay as they are. When the process is inside an
\* attempt, the kill may land in fs.writeFile of writeJson, after the file
\* was opened (and so truncated) and before all of the data was written.
Terminate ==
  /\ pc \in {"prepare", "wait", "sleep", "request", "backoff", "tally"}
  /\ \/ UNCHANGED <<facts, reqs>>
     \/ /\ pc = "request"
        /\ \E out \in ServiceOutcomes : ReachedWrite(out)
        /\ facts' = [facts EXCEPT ![i] = PartialFile]
        /\ reqs' = [reqs EXCEPT ![i] = @ + 1]
  /\ pc' = "killed"
  /\ i' = 1
  /\ ok' = 0 /\ fail' = 0 /\ skipped' = 0
  /\ timer' = 0
  /\ tokensUsed' = <<>>
  /\ estimatedTokens' = 0
  /\ attempt' = 0
  /\ success' = FALSE
  /\ attemptLog' = <<>>
  /\ sleepLog' = <<>>
  /\ addLog' = <<>>
  /\ clock' = 0        \* time is counted from the start of a call
  /\ UNCHANGED <<run, force, vvars, pvars, xvars, bvars, wrote, tally, prev>>

Next ==
  \/ MissingCredential
  \/ StartRun
  \/ PrepareSkip
  \/ PrepareOk
  \/ WaitForCapacity
  \/ CapacitySleep
  \/ Attempt
  \/ BackoffSleep
  \/ Tally
  \/ Return
  \/ Terminate

Spec == Init /\ [][Next]_vars

(***************************************************************************)
(* Claims about the throttled executor (checked under Spec)                *)
(***************************************************************************)
\* C1: when a call with force = false follows a call with force = false that
\* wrote facts.json of an episode, the second call issues no request for the
\* episode, does not write its facts.json and tallies it as skipped, so the
\* artifact is written exactly once over both calls.
C1_SecondRunSkips ==
  \A e \in Episodes :
    (prev.ran /\ ~prev.force /\ ~force /\ prev.wrote[e] >= 1) =>
       /\ reqs[e] = 0
       /\ wrote[e] = 0
       /\ prev.wrote[e] + wrote[e] = 1
       /\ tally[e] \in {"none", "skipped"}
       /\ i > e => tally[e] = "skipped"

C1_Witness ==
  /\ run = 2 /\ pc = "returned"
  /\ ~prev.force /\ ~force
  /\ prev.wrote[1] = 1
  /\ reqs[1] = 0 /\ tally[1] = "skipped" /\ skipped >= 1
  /\ facts[1].exists

\* The tokens recorded in the 60-second window that ends at the k-th
\* recorded entry. A window ending at any other instant holds a subset of the
\* entries of the window ending at the latest entry not after it.
WindowSumAt(k) ==
  SumTokens(SelectSeq(SubSeq(addLog, 1, k),
                      LAMBDA t : t.timestamp > addLog[k].timestamp - WindowMs))

\* C2: the tokens recorded with timestamps inside any trailing 60-second
\* window never exceed capacity (0.9 x the configured limit).
C2_WindowWithinCapacity ==
  \A k \in 1..Len(addLog) : WindowSumAt(k) <= Capacity

\* Two long transcripts do not fit one window together: the second one is
\* recorded only after the first entry has left the window.
C2_Witness ==
  /\ Len(addLog) = 2
  /\ addLog[1].tokens + addLog[2].tokens > Capacity
  /\ addLog[2].timestamp - addLog[1].timestamp >= WindowMs
  /\ Len(tokensUsed) = 1

\* C3 as stated: after an error that is not a rate-limit error no further
\* request is issued for the same episode (such an error can only be the
\* outcome of the episode's last request).
C3_NoRequestAfterOtherError ==
  \A k \in 1..Len(attemptLog) :
    attemptLog[k] \in {"other", "invalid"} => k = Len(attemptLog)

\* C3 amended: an error that is not a rate-limit error is followed by the next
\* attempt at once, without any backoff sleep, and the episode fails only
\* when the third attempt has failed.
C3_OtherErrorsRetriedAtOnce ==
  /\ \A k \in 1..Len(sleepLog) :
        attemptLog[k] \in {"other", "invalid"} => sleepLog[k] = 0
  /\ (Len(attemptLog) >= 1 /\ Len(attemptLog) < Retries
        /\ attemptLog[Len(attemptLog)] \in {"other", "invalid"}) =>
         (pc = "request" /\ attempt = Len(attemptLog) + 1)
  /\ (pc = "tally" /\ ~success) => Len(attemptLog) = Retries
  /\ Len(attemptLog) <= Retries

C3_Witness ==
  /\ pc = "tally" /\ success
  /\ attemptLog = <<"other", "other", "ok">>
  /\ sleepLog = <<0, 0>>

\* C4: a rate-limit error on attempt 1 is followed by a 2 s sleep and on
\* attempt 2 by a 4 s sleep; at most 3 requests are issued for one episode;
\* after the third failed attempt the episode is reported failed with no
\* further sleep or request.
C4_RateLimitBackoff ==
  /\ Len(attemptLog) <= 3
  /\ \A e \in Episodes : reqs[e] <= 3
  /\ \A k \in 1..Len(sleepLog) :
        attemptLog[k] = "rate" => sleepLog[k] = (IF k < 3 THEN (2 ^ k) * 1000 ELSE 0)
  /\ pc = "backoff" =>
        /\ attemptLog[Len(attemptLog)] = "rate"
        /\ Len(attemptLog) < 3
        /\ timer = (2 ^ Len(attemptLog)) * 1000
  /\ (Len(attemptLog) >= 1 /\ attemptLog[Len(attemptLog)] = "rate"
        /\ Len(attemptLog) < 3) => pc = "backoff" \/ Len(sleepLog) = Len(attemptLog)
  /\ (Len(attemptLog) = 3 /\ attemptLog[3] # "ok") =>
        (pc = "tally" /\ ~success /\ timer = 0)

C4_Witness ==
  /\ pc = "tally" /\ ~success
  /\ attemptLog = <<"rate", "rate", "rate">>
  /\ sleepLog = <<2000, 4000, 0>>

(***************************************************************************)
(* Execution Strategy A: the batch orchestrator                            *)
(***************************************************************************)
MaxPolls == 4             \* the job is observed for at most this many polls

PollIntervalMs == 30000   \* "Wait 30 seconds before checking again"

TerminalStatuses == {"completed", "failed", "expired", "cancelled"}
FailedStatuses == {"failed", "expired", "cancelled"}
\* The statuses the service reports while the job is still running.
RunningStatuses == {"validating", "in_progress", "finalizing", "cancelling"}

\* How the service may move a job forward.
StatusSuccessors(st) ==
  CASE st = "validating" -> {"in_progress", "failed"}
    [] st = "in_progress" -> {"finalizing", "expired", "cancelling"}
    [] st = "finalizing" -> {"completed"}
    [] st = "cancelling" -> {"cancelled"}
    [] OTHER -> {}

\* A plausible slip: the id built from the basename alone, which is the same
\* ("transcript") for every episode directory.
CustomId_BasenameOnly(idx) == 1

\* customId = `request_${i}_${basename}`: one id per loop index.
CustomId(idx) == idx
UnknownId == 0

\* fileMap.get(custom_id): the episode whose facts.json is the output path.
HasPath(id) == \E m \in fileMap : m[1] = id
PathOf(id) == (CHOOSE m \in fileMap : m[1] = id)[2]

\* One line of the result file: { custom_id, response, error }.
ResultContents ==
  {[kind |-> "error", text |-> [form |-> "empty", body |-> NoObj]]}
  \cup {[kind |-> "message", text |-> t] :
          t \in {[form |-> "empty", body |-> NoObj],
                 [form |-> "garbage", body |-> NoObj],
                 [form |-> "raw", body |-> GoodStandard],
                 [form |-> "raw", body |-> ThreeFacts]}}

ResultRecords(ids) ==
  {[custom_id |-> id, kind |-> c.kind, text |-> c.text] :
      id \in ids \cup {UnknownId}, c \in ResultContents}

\* extractFactsFromVtt (batch) begins.
StartBatchRun ==
  /\ pc \in {"idle", "returned", "threw"}
  /\ apiKey
  /\ run < MaxRuns
  /\ run' = run + 1
  /\ force' \in BOOLEAN
  /\ pc' = "b_prepare"
  /\ i' = 1
  /\ ok' = 0 /\ fail' = 0 /\ skipped' = 0
  /\ clock' = 0
  /\ timer' = 0
  /\ batchRequests' = <<>>
  /\ fileMap' = {}
  /\ jobStatus' = "none"
  /\ lastSeen' = "none"
  /\ batchResults' = <<>>
  /\ cursor' = 1
  /\ thrown' = "none"
  /\ polls' = 0
  /\ sinceSleep' = 0
  /\ downloaded' = FALSE
  /\ factsAtStart' = facts
  /\ prev' = [force |-> force, wrote |-> wrote, ran |-> (run > 0)]
  /\ wrote' = [e \in Episodes |-> 0]
  /\ tally' = [e \in Episodes |-> "none"]
  /\ UNCHANGED <<facts, tvars, vvars, pvars, xvars, reqs, attemptLog, sleepLog, addLog>>

\* "Prepare all files": prepareVttFile returned null, skipped++.
BatchPrepareSkip ==
  /\ pc = "b_prepare"
  /\ i <= NumEpisodes
  /\ \E vtt \in {"ok", "unreadable", "unparsable"} :
        Gated(i, force) \/ vtt # "ok"
  /\ skipped' = skipped + 1
  /\ tally' = [tally EXCEPT ![i] = "skipped"]
  /\ i' = i + 1
  /\ UNCHANGED <<facts, run, force, pc, ok, fail, clock, timer, tvars, vvars, pvars, xvars,
                 bvars, reqs, wrote, prev, attemptLog, sleepLog, addLog>>

\* prepareVttFile returned the csv: the request is built and mapped.
BatchPrepareOk ==
  /\ pc = "b_prepare"
  /\ i <= NumEpisodes
  /\ ~Gated(i, force)
  /\ batchRequests' = Append(batchRequests, CustomId(i))
  /\ fileMap' = {m \in fileMap : m[1] # CustomId(i)} \cup {<<CustomId(i), i>>}
  /\ i' = i + 1
  /\ UNCHANGED <<facts, run, force, pc, ok, fail, skipped, clock, timer, tvars,
                 vvars, pvars, xvars, hvars, jobStatus, lastSeen, batchResults, cursor, thrown,
                 polls, sinceSleep, downloaded, factsAtStart>>

\* "if (batchRequests.length === 0) return { ok: 0, fail: 0, skipped }"
BatchNothingToDo ==
  /\ pc = "b_prepare"
  /\ i > NumEpisodes
  /\ Len(batchRequests) = 0
  /\ pc' = "returned"
  /\ UNCHANGED <<facts, run, force, i, ok, fail, skipped, clock, timer, tvars,
                 vvars, pvars, xvars, hvars, bvars>>

\* createAndSubmitBatch: upload and register the job, or throw.
SubmitBatch ==
  /\ pc = "b_prepare"
  /\ i > NumEpisodes
  /\ Len(batchRequests) > 0
  /\ \E accepted \in BOOLEAN :
       IF accepted
         THEN /\ jobStatus' = "validating"
              /\ pc' = "b_poll"
              /\ UNCHANGED thrown
         ELSE /\ thrown' = "api"
              /\ pc' = "threw"
              /\ UNCHANGED jobStatus
  /\ UNCHANGED <<facts, run, force, i, ok, fail, skipped, clock, timer, tvars,
                 vvars, pvars, xvars, hvars, batchRequests, fileMap, lastSeen, batchResults,
                 cursor, polls, sinceSleep, downloaded, factsAtStart>>

\* The service moves the job forward.
ServiceProgress ==
  /\ jobStatus \in RunningStatuses
  /\ polls < MaxPolls
  /\ jobStatus' \in StatusSuccessors(jobStatus)
  /\ UNCHANGED <<facts, run, force, pc, i, ok, fail, skipped, clock, timer,
                 tvars, vvars, pvars, xvars, hvars, batchRequests, fileMap, lastSeen,
                 batchResults, cursor, thrown, polls, sinceSleep, downloaded,
                 factsAtStart>>

\* A plausible slip: an expired job taken for a finished one.
PollVerdict_ExpiredReturns(status) ==
  IF status \in {"completed", "expired"} THEN "return"
  ELSE IF status = "failed" \/ status = "cancelled" THEN "throw"
  ELSE "sleep"

\* A plausible slip: "cancelled" missing from the failure test.
PollVerdict_CancelledSleeps(status) ==
  IF status = "completed" THEN "return"
  ELSE IF status = "failed" \/ status = "expired" THEN "throw"
  ELSE "sleep"

\* waitForBatchCompletion: what the loop body does with batch.status.
PollVerdict(status) ==
  IF status = "completed" THEN "return"
  ELSE IF status = "failed" \/ status = "expired" \/ status = "cancelled"
    THEN "throw"
  ELSE "sleep"

\* One iteration of waitForBatchCompletion up to its setTimeout: retrieve the
\* batch (the call itself may fail), then return, throw or set the timer.
Poll ==
  /\ pc = "b_poll"
  /\ polls' = polls + 1
  /\ sinceSleep' = sinceSleep + 1
  /\ \E retrieved \in BOOLEAN :
       IF ~retrieved
         THEN /\ thrown' = "api"
              /\ pc' = "threw"
              /\ UNCHANGED <<lastSeen, timer>>
         ELSE /\ lastSeen' = jobStatus
              /\ CASE PollVerdict(jobStatus) = "return" ->
                        pc' = "b_download" /\ UNCHANGED <<thrown, timer>>
                   [] PollVerdict(jobStatus) = "throw" ->
                        pc' = "threw" /\ thrown' = "job" /\ UNCHANGED timer
                   [] OTHER ->
                        pc' = "b_pollsleep" /\ timer' = PollIntervalMs
                        /\ UNCHANGED thrown
  /\ UNCHANGED <<facts, run, force, i, ok, fail, skipped, clock, tvars, vvars, pvars, xvars,
                 hvars, batchRequests, fileMap, jobStatus, batchResults, cursor,
                 downloaded, factsAtStart>>

\* The 30 s setTimeout of waitForBatchCompletion fires.
PollSleep ==
  /\ pc = "b_pollsleep"
  /\ polls < MaxPolls
  /\ clock' = clock + timer
  /\ timer' = 0
  /\ sinceSleep' = 0
  /\ pc' = "b_poll"
  /\ UNCHANGED <<facts, run, force, i, ok, fail, skipped, tvars, vvars, pvars, xvars, hvars,
                 batchRequests, fileMap, jobStatus, lastSeen, batchResults,
                 cursor, thrown, polls, downloaded, factsAtStart>>

\* downloadBatchResults: fetch and split the result file (or throw); the
\* records may come in any order, repeat an id or carry an unknown id.
DownloadResults ==
  /\ pc = "b_download"
  /\ \E fetched \in BOOLEAN :
       IF ~fetched
         THEN /\ thrown' = "api"
              /\ pc' = "threw"
              /\ UNCHANGED <<batchResults, downloaded, cursor>>
         ELSE /\ downloaded' = TRUE
              /\ batchResults' \in
                   [1..Len(batchRequests) ->
                      ResultRecords({batchRequests[k] : k \in 1..Len(batchRequests)})]
              /\ cursor' = 1
              /\ pc' = "b_process"
              /\ UNCHANGED thrown
  /\ UNCHANGED <<facts, run, force, i, ok, fail, skipped, clock, timer, tvars,
                 vvars, pvars, xvars, hvars, batchRequests, fileMap, jobStatus, lastSeen,
                 polls, sinceSleep, factsAtStart>>

\* processBatchResults, one record: why it fails, or "ok".
RecordResult(r, w) ==
  IF ~HasPath(r.custom_id) THEN "no_path"
  ELSE IF r.kind = "error" THEN "api_error"
  ELSE IF r.text.form = "empty" THEN "empty"
  ELSE IF ~extractJson(r.text).ok THEN "unparseable"
  ELSE IF ~EpisodeSchemaParse(extractJson(r.text).value).ok THEN "invalid"
  ELSE IF ~AdditionalConstraint(extractJson(r.text).value) THEN "invalid"
  ELSE IF w # "written" THEN "write_failed"
  ELSE "ok"

\* A plausible slip: "continue" on an unknown id without counting it.
RecordCounts_UnknownIdUncounted(res) ==
  IF res = "ok" THEN [ok |-> 1, fail |-> 0]
  ELSE IF res = "no_path" THEN [ok |-> 0, fail |-> 0]
  ELSE [ok |-> 0, fail |-> 1]

\* ok++ or fail++ for one record.
RecordCounts(res) ==
  IF res = "ok" THEN [ok |-> 1, fail |-> 0] ELSE [ok |-> 0, fail |-> 1]

\* One iteration of the loop of processBatchResults.
ProcessRecord ==
  /\ pc = "b_process"
  /\ cursor <= Len(batchResults)
  /\ \E w \in WriteOutcomes :
       LET r == batchResults[cursor]
           res == RecordResult(r, w)
       IN
       /\ ok' = ok + RecordCounts(res).ok
       /\ fail' = fail + RecordCounts(res).fail
       /\ facts' = IF res = "ok"
                     THEN [facts EXCEPT ![PathOf(r.custom_id)] =
                             File(extractJson(r.text).value)]
                   ELSE IF res = "write_failed" /\ w = "rejected_partial"
                     THEN [facts EXCEPT ![PathOf(r.custom_id)] = PartialFile]
                   ELSE facts
       /\ wrote' = IF res = "ok"
                     THEN [wrote EXCEPT ![PathOf(r.custom_id)] = @ + 1]
                     ELSE wrote
  /\ cursor' = cursor + 1
  /\ UNCHANGED <<run, force, pc, i, skipped, clock, timer, tvars, vvars, pvars, xvars, reqs,
                 tally, prev, attemptLog, sleepLog, addLog, batchRequests,
                 fileMap, jobStatus, lastSeen, batchResults, thrown, polls,
                 sinceSleep, downloaded, factsAtStart>>

\* return { ok, fail, skipped }
BatchReturn ==
  /\ pc = "b_process"
  /\ cursor > Len(batchResults)
  /\ pc' = "returned"
  /\ UNCHANGED <<facts, run, force, i, ok, fail, skipped, clock, timer, tvars,
                 vvars, pvars, xvars, hvars, bvars>>

NextBatch ==
  \/ MissingCredential
  \/ StartBatchRun
  \/ BatchPrepareSkip
  \/ BatchPrepareOk
  \/ BatchNothingToDo
  \/ SubmitBatch
  \/ ServiceProgress
  \/ Poll
  \/ PollSleep
  \/ DownloadResults
  \/ ProcessRecord
  \/ BatchReturn

\* The program's own steps are always taken when they can be: a call that is
\* not waiting for the service keeps running.
SpecBatch ==
  /\ Init
  /\ [][NextBatch]_vars
  /\ WF_vars(Poll)
  /\ WF_vars(PollSleep)

(***************************************************************************)
(* Claims about the batch orchestrator (checked under SpecBatch)           *)
(***************************************************************************)
\* C5: when the batch job ended failed, expired or cancelled, no result file
\* is downloaded and no facts.json is written or modified by the call;
\* artifacts change only after a poll has observed status completed.
C5_FailedJobWritesNothing ==
  /\ jobStatus \in FailedStatuses =>
       /\ ~downloaded
       /\ facts = factsAtStart
       /\ \A e \in Episodes : wrote[e] = 0
  /\ (downloaded \/ facts # factsAtStart \/ \E e \in Episodes : wrote[e] > 0) =>
       lastSeen = "completed"

C5_Witness ==
  /\ pc = "threw" /\ thrown = "job"
  /\ jobStatus = "expired" /\ lastSeen = "expired"
  /\ Len(batchRequests) = 2
  /\ ~downloaded /\ facts = factsAtStart

\* The batch side of C1 (checked under SpecBatch): an episode whose facts.json
\* the previous unforced call wrote is not given a request by an unforced
\* call, and no job is submitted when no request was built.
C1_BatchGateSubmitsNothing ==
  /\ \A e \in Episodes :
       (prev.ran /\ ~prev.force /\ ~force /\ prev.wrote[e] >= 1) =>
          /\ ~HasPath(CustomId(e))
          /\ wrote[e] = 0
          /\ i > e => tally[e] = "skipped"
  /\ Len(batchRequests) = 0 => jobStatus = "none"

InPolling == pc \in {"b_poll", "b_pollsleep"}

C6_PollingInvariant ==
  \* at most one retrieve between two sleeps, and each sleep is 30 s
  /\ sinceSleep <= 1
  /\ pc = "b_pollsleep" => (timer = 30000 /\ lastSeen \in RunningStatuses)
  \* the loop is left at the first poll that observes a terminal status ...
  /\ lastSeen \in TerminalStatuses => ~InPolling
  \* ... returning the job iff that status is completed ...
  /\ pc \in {"b_download", "b_process"} => lastSeen = "completed"
  /\ (lastSeen = "completed" /\ thrown = "none") =>
        pc \in {"b_download", "b_process", "returned"}
  \* ... and raising the job-level error iff it is failed, expired, cancelled
  /\ thrown = "job" <=> lastSeen \in FailedStatuses
  /\ thrown = "job" => pc = "threw"
  \* while the observed status is not terminal the loop goes on (unless the
  \* retrieve call itself failed, which is not a status of the job)
  /\ (lastSeen \in RunningStatuses /\ thrown = "none") => InPolling

\* C6: waitForBatchCompletion polls with one 30-second sleep between
\* consecutive polls, stops at the first poll that observes a terminal status,
\* returns iff that status is completed, raises the job-level error iff it is
\* failed, expired or cancelled, does neither while the observed status is
\* not terminal, and terminates once the job has reached a terminal status.
C6_Polling ==
  /\ []C6_PollingInvariant
  /\ [][(pc = "b_pollsleep" /\ pc' = "b_poll") =>
          (clock' = clock + 30000 /\ polls' = polls)]_vars
  /\ [][(pc = "b_poll" /\ pc' = "b_pollsleep") => polls' = polls + 1]_vars
  /\ ((jobStatus \in TerminalStatuses /\ InPolling) ~> ~InPolling)

C6_Witness ==
  /\ pc = "b_download"
  /\ lastSeen = "completed"
  /\ polls = 4
  /\ clock = 90000

\* The record fails for one of the reasons that do not involve the write: no
\* path for its custom id, an API error entry, empty content, unparseable
\* output, or a schema violation.
FailsBeforeWrite(r) == RecordResult(r, "written") # "ok"

C7_CountsInvariant ==
  /\ pc = "b_process" => ok + fail = cursor - 1
  /\ (pc = "returned" /\ downloaded) => ok + fail = Len(batchResults)

\* C7: a failing record increments fail, writes no artifact and does not stop
\* the collection; every record increments exactly one of ok and fail, so the
\* returned ok + fail is the number of result records.
C7_RecordsIsolated ==
  /\ []C7_CountsInvariant
  /\ [][(pc = "b_process" /\ cursor' # cursor) =>
          /\ cursor' = cursor + 1
          /\ pc' = "b_process"
          /\ \/ (ok' = ok + 1 /\ fail' = fail)
             \/ (ok' = ok /\ fail' = fail + 1)
          /\ FailsBeforeWrite(batchResults[cursor]) =>
                (fail' = fail + 1 /\ facts' = facts /\ wrote' = wrote)]_vars

C7_Witness ==
  /\ pc = "returned" /\ downloaded
  /\ Len(batchResults) = 2
  /\ batchResults[1].custom_id = UnknownId
  /\ ok = 1 /\ fail = 1
  /\ wrote[2] = 1

(***************************************************************************)
(* Validator pipeline: obj -> EpisodeSchema.parse -> constraint -> write   *)
(***************************************************************************)
\* The message contents offered to the pipeline: every input object as raw
\* JSON, the response objects inside a fenced block, and the two contents
\* that carry no JSON.
InputContents ==
  {[form |-> "raw", body |-> o] : o \in InputObjects}
  \cup {[form |-> "fenced", body |-> o] : o \in ResponseObjects}
  \cup {[form |-> "empty", body |-> NoObj], [form |-> "garbage", body |-> NoObj]}

InitValidator ==
  /\ apiKey = TRUE
  /\ content \in InputContents
  /\ obj = NoObj
  /\ parsedEpisode = NoResult
  /\ written = NoFile
  /\ InitRun
  /\ InitRetryIdle
  /\ InitDownloadIdle
  /\ InitClassifierIdle
  /\ InitNormalizerIdle

\* "if (!text || !text.trim()) throw", then obj = extractJson(text.trim()),
\* which throws when the text carries no JSON.
ExtractObject ==
  /\ content # NoContent
  /\ obj = NoObj
  /\ content.form # "empty"
  /\ extractJson(content).ok
  /\ obj' = extractJson(content).value
  /\ UNCHANGED <<content, parsedEpisode, written, rvars, tvars, hvars, bvars, pvars, xvars>>

ParseEpisode ==
  /\ obj # NoObj
  /\ parsedEpisode = NoResult
  /\ parsedEpisode' = EpisodeSchemaParse(obj)
  /\ UNCHANGED <<content, obj, written, rvars, tvars, hvars, bvars, pvars, xvars>>

WriteEpisode ==
  /\ parsedEpisode.done
  /\ parsedEpisode.ok
  /\ AdditionalConstraint(parsedEpisode.value)
  /\ written = NoFile
  /\ written' = File(parsedEpisode.value)
  /\ UNCHANGED <<content, obj, parsedEpisode, rvars, tvars, hvars, bvars, pvars, xvars>>

NextValidator == ExtractObject \/ ParseEpisode \/ WriteEpisode

SpecValidator == InitValidator /\ [][NextValidator]_vars

(***************************************************************************)
(* Claims about the Validator (checked under SpecValidator)                *)
(***************************************************************************)
\* The object carries every required property with the right type, so the
\* object-level parse is not aborted and the cross-field rules are evaluated.
HasRequiredProperties(o) ==
  /\ o.episode_number # Absent
  /\ o.episode_title # Absent
  /\ o.episode_summary # Absent

WellFormedOtherwise(o) ==
  /\ o.episode_number = "text" /\ o.episode_title = "text"
  /\ o.episode_summary = "text"
  /\ \A k \in 1..Len(o.facts) : o.facts[k].start_time \in {GoodTime, "unknown"}

StandardWrongLength(o) ==
  o.episode_type = "standard" /\ Len(o.facts) # 4

IsPermutation1to4(o) ==
  Len(o.facts) = 4 /\ \A n \in 1..4 : \E k \in 1..4 : o.facts[k].fact_number = n

C10_StandardIffFour ==
  /\ (parsedEpisode.done /\ parsedEpisode.ok) =>
        (obj.episode_type = "standard" <=> Len(obj.facts) = 4)
  /\ written.exists =>
        (written.data.episode_type = "standard" <=> Len(written.data.facts) = 4)

\* C10 amended: every accepted (and every persisted) record with
\* episode_type = standard has exactly 4 facts, and every other accepted
\* record has 0 or 4 facts.
AcceptedShape(r) ==
  /\ r.episode_type = "standard" => Len(r.facts) = 4
  /\ r.episode_type # "standard" => Len(r.facts) \in {0, 4}

C10_StandardHasFourOthersZeroOrFour ==
  /\ (parsedEpisode.done /\ parsedEpisode.ok) => AcceptedShape(obj)
  /\ written.exists => AcceptedShape(written.data)

C10_Witness ==
  /\ written.exists
  /\ written.data.episode_type = "standard"
  /\ Len(written.data.facts) = 4

(***************************************************************************)
(* Claims about extraction and validation of one model output              *)
(* (checked under SpecValidator)                                           *)
(***************************************************************************)
\* The json_schema of response_format (strict, additionalProperties false):
\* exactly episode_type (const "standard"), episode_summary (any string) and
\* facts (4 items, fact_number 1..4, start_time matching the pattern).
ConformsToResponseSchema(o) ==
  /\ o.episode_number = Absent
  /\ o.episode_title = Absent
  /\ o.episode_type = "standard"
  /\ o.episode_summary # Absent
  /\ Len(o.facts) = StandardFactCount
  /\ \A k \in 1..Len(o.facts) :
       /\ o.facts[k].fact_number \in FactNumberMin..FactNumberMax
       /\ StartTimeSchema(o.facts[k].start_time)

\* The model output carries JSON (raw or fenced) that conforms to the
\* response schema and numbers its four facts 1..4.
ConformantContent ==
  /\ content.form \in {"raw", "fenced"}
  /\ ConformsToResponseSchema(content.body)
  /\ IsPermutation1to4(content.body)

\* C11: a model output that conforms to the strict response schema and to the
\* cross-field rules is recovered by extraction, is accepted by the Validator
\* and is what gets written as the artifact.
C11_ConformantOutputPersisted ==
  ConformantContent =>
     /\ obj # NoObj => obj = content.body
     /\ parsedEpisode.done => (parsedEpisode.ok /\ AdditionalConstraint(obj))
     /\ written.exists => written.data = content.body

(***************************************************************************)
(* Further claims about the throttled executor (checked under Spec)        *)
(***************************************************************************)
\* The file holds a complete record that the Validator accepts.
CompleteArtifact(f) ==
  /\ f.exists
  /\ f # PartialFile
  /\ Accepts(f.data)

\* C12: after the process was terminated at any point of a call, every
\* facts.json that exists holds a complete validated record, and the gate of
\* a later call never skips an episode on the strength of an incomplete file.
C12_TerminationLeavesCompleteArtifacts ==
  /\ pc = "killed" => \A e \in Episodes : facts[e].exists => CompleteArtifact(facts[e])
  /\ \A e \in Episodes :
       (prev.ran /\ tally[e] = "skipped" /\ Gated(e, force)) =>
          CompleteArtifact(facts[e])

\* The control points of a call that is running or has returned.
InCall == pc \in {"prepare", "wait", "sleep", "request", "backoff", "tally", "returned"}

\* C13: the call throws only in the credential check; past it, whatever fails
\* for one episode (captions unreadable or unparsable, a service error, rate
\* limiting to the last attempt, invalid model output, a failed write), the
\* episodes before the loop index all have a tally entry, the three counts
\* add up to their number, and the call returns only when every episode of
\* the input has been tallied.
C13_EpisodeFailuresTallied ==
  /\ pc = "threw" => (thrown = "credential" /\ ~apiKey)
  /\ InCall =>
       /\ \A e \in Episodes : (e < i) <=> (tally[e] # "none")
       /\ ok + fail + skipped = i - 1
       /\ ok = Cardinality({e \in Episodes : tally[e] = "ok"})
       /\ fail = Cardinality({e \in Episodes : tally[e] = "fail"})
       /\ skipped = Cardinality({e \in Episodes : tally[e] = "skipped"})
  /\ pc = "returned" => i = NumEpisodes + 1

\* The first episode failed and the second one was still processed.
C13_Witness ==
  /\ pc = "returned"
  /\ tally[1] = "fail"
  /\ tally[2] = "ok"
  /\ ok = 1 /\ fail = 1 /\ skipped = 0

\* C14: an episode is tallied as skipped only when its facts.json exists and
\* force is off, so with force on nothing is skipped.
C14_SkippedOnlyWhenGated ==
  /\ \A e \in Episodes : tally[e] = "skipped" => Gated(e, force)
  /\ (InCall /\ force) => skipped = 0

\* C18: requests go out one at a time and in input order. A step issues at
\* most one request, for the episode at the loop index; by then every earlier
\* episode has its tally entry (its requests, retries and write are over) and
\* its usage is recorded, and no later episode has had a request.
C18_SequentialInOrder ==
  [][\A e \in Episodes :
       reqs'[e] > reqs[e] =>
         /\ e = i /\ pc = "request"
         /\ reqs'[e] = reqs[e] + 1
         /\ \A k \in Episodes \ {e} : reqs'[k] = reqs[k]
         /\ \A k \in Episodes : k < e => tally[k] # "none"
         /\ \A k \in Episodes : k > e => (reqs[k] = 0 /\ tally[k] = "none")
         /\ Len(addLog) =
              Cardinality({k \in Episodes : k < e /\ tally[k] \in {"ok", "fail"}})]_vars

\* The first episode used all of its attempts and failed; only then was the
\* request of the second episode issued.
C18_Witness ==
  /\ reqs[1] = Retries /\ tally[1] = "fail"
  /\ reqs[2] = 1
  /\ Len(addLog) = 1

RECURSIVE TotalRequests(_)
TotalRequests(n) == IF n = 0 THEN 0 ELSE reqs[n] + TotalRequests(n - 1)

\* C19: every request issued, each retry included, is recorded in the window
\* exactly once with the estimate of its episode: between two episodes the
\* tracker has received as many entries as requests were issued.
C19_EveryRequestRecorded ==
  pc = "prepare" =>
     /\ Len(addLog) = TotalRequests(NumEpisodes)
     /\ \A k \in 1..Len(addLog) :
          \E len \in CsvLengths : addLog[k].tokens = EstimateRequest(len)

(***************************************************************************)
(* The entry points: main() of process-episodes.ts and of                  *)
(* extract-facts-only.ts, each calling extractFactsFromVtt of              *)
(* "./extract-facts.js" once. Episodes are the episodes handed to the      *)
(* call; the other episodes main() dealt with appear only as stats.failed  *)
(* and as the files written for them.                                      *)
(***************************************************************************)
MaxFailedEpisodes == 1    \* episodes whose download or transcription failed

EntryPoints == {"process-episodes", "extract-facts-only"}

\* What process-episodes has written when it reaches the call: transcript and
\* metadata of the processed episodes, and the empty facts.json of an episode
\* it classified as non-standard.
PreWorkOutcomes ==
  {{"transcript.vtt", "metadata.json"},
   {"transcript.vtt", "metadata.json", "facts.json (empty)"}}

\* process-episodes main(), from the start to the call: discover, process
\* each episode (download, transcribe, save metadata), write the empty
\* facts.json of non-standard episodes, collect vttPaths.
MainProcessEpisodes ==
  /\ entry = "none"
  /\ pc = "idle"
  /\ entry' = "process-episodes"
  /\ statsFailed' \in 0..MaxFailedEpisodes
  /\ preWork' \in PreWorkOutcomes
  /\ UNCHANGED <<apiKey, exitCode, reported, vvars, xvars, rvars, tvars, hvars, bvars>>

\* extract-facts-only main(), from the start to the call: scan the episode
\* directories for transcripts; nothing is written.
MainExtractFactsOnly ==
  /\ entry = "none"
  /\ pc = "idle"
  /\ entry' = "extract-facts-only"
  /\ UNCHANGED <<apiKey, exitCode, statsFailed, reported, preWork, vvars, xvars, rvars,
                 tvars, hvars, bvars>>

InMain == entry \in EntryPoints /\ exitCode = -1

\* await extractFactsFromVtt(vttPaths, outputDirs, force): process-episodes
\* passes false, extract-facts-only passes its --force flag.
CallExtract ==
  /\ InMain
  /\ pc = "idle"
  /\ StartBatchRun
  /\ entry = "process-episodes" => ~force'

\* The same call with OPENAI_API_KEY unset.
CallExtractNoKey ==
  /\ InMain
  /\ pc = "idle"
  /\ MissingCredential

\* process.exit after the call returned { ok, fail, skipped }: the exit
\* status main() ends with.
ExitCodeAfterReturn(script, failedEpisodes, failCount) ==
  IF script = "process-episodes"
    THEN (IF failedEpisodes > 0 THEN 1 ELSE 0)
    ELSE (IF failCount > 0 THEN 1 ELSE 0)

\* The call returned: the summary is logged and the process exits.
MainAfterReturn ==
  /\ InMain
  /\ pc = "returned"
  /\ reported' = TRUE
  /\ exitCode' = ExitCodeAfterReturn(entry, statsFailed, fail)
  /\ UNCHANGED <<apiKey, entry, statsFailed, preWork, vvars, xvars, rvars, tvars, hvars,
                 bvars>>

\* The call threw: the catch of process-episodes main(), or main().catch of
\* extract-facts-only, logs the error and calls process.exit(1).
MainAfterThrow ==
  /\ InMain
  /\ pc = "threw"
  /\ exitCode' = 1
  /\ UNCHANGED <<apiKey, entry, statsFailed, reported, preWork, vvars, xvars, rvars,
                 tvars, hvars, bvars>>

NextPipeline ==
  \/ MainProcessEpisodes
  \/ MainExtractFactsOnly
  \/ CallExtract
  \/ CallExtractNoKey
  \/ BatchPrepareSkip
  \/ BatchPrepareOk
  \/ BatchNothingToDo
  \/ SubmitBatch
  \/ ServiceProgress
  \/ Poll
  \/ PollSleep
  \/ DownloadResults
  \/ ProcessRecord
  \/ BatchReturn
  \/ MainAfterReturn
  \/ MainAfterThrow

SpecPipeline == Init /\ [][NextPipeline]_vars

(***************************************************************************)
(* Claims about the entry points (checked under SpecPipeline)              *)
(***************************************************************************)
\* C15: when the extraction returned a non-zero fail count, the process exits
\* with a non-zero status, whichever script ran it, and the facts.json files
\* written by the run are still there.
C15_FailCountSetsExitCode ==
  (entry \in EntryPoints /\ exitCode # -1 /\ pc = "returned" /\ fail > 0) =>
     /\ exitCode # 0
     /\ \A e \in Episodes : wrote[e] > 0 => facts[e].exists

\* C16: a batch job that ended failed, expired or cancelled does not stop the
\* run: the process still logs its closing summary of counts.
C16_FailedJobStillReports ==
  (entry \in EntryPoints /\ exitCode # -1 /\ thrown = "job") => reported

PreparedEpisodes ==
  SelectSeq([e \in 1..NumEpisodes |-> e], LAMBDA e : e < i /\ tally[e] # "skipped")

C20_IdsInvariant ==
  pc \in {"b_prepare", "b_poll", "b_pollsleep", "b_download", "b_process"} =>
    /\ \A a, b \in 1..Len(batchRequests) :
         a # b => batchRequests[a] # batchRequests[b]
    /\ \A m1, m2 \in fileMap : m1[1] = m2[1] => m1 = m2
    /\ Len(batchRequests) = Len(PreparedEpisodes)
    /\ \A k \in 1..Len(batchRequests) :
         /\ HasPath(batchRequests[k])
         /\ PathOf(batchRequests[k]) = PreparedEpisodes[k]

\* C20: the custom ids of the requests of one job are pairwise distinct, each
\* maps to facts.json of the episode whose transcript the request carries,
\* and a result record changes only the facts.json mapped from its own id.
C20_ResultsGoToTheirOwnPath ==
  /\ []C20_IdsInvariant
  /\ [][\A e \in Episodes :
          facts'[e] # facts[e] =>
            /\ pc = "b_process"
            /\ HasPath(batchResults[cursor].custom_id)
            /\ PathOf(batchResults[cursor].custom_id) = e
            /\ batchResults[cursor].custom_id = CustomId(e)]_vars

\* The record of the second episode came first in the result file and was
\* written to the second episode's facts.json, the first one still absent.
C20_Witness ==
  /\ pc = "b_process" /\ cursor = 2
  /\ Len(batchRequests) = 2
  /\ batchResults[1].custom_id = CustomId(2)
  /\ facts[2].exists /\ ~facts[1].exists

(***************************************************************************)
(* Episode Classifier: the classification inside main() of                 *)
(* process-episodes.ts, and what main() does with the episode              *)
(***************************************************************************)
MaxTitleTokens == 3

\* A title is a sequence of tokens; its text is their concatenation.
Digits == {"601"}
TitleTokens == Digits \cup {".", ":", "Bonus", "COMPILATION", "compilation", "Fish"}
Titles == SeqsUpTo(TitleTokens, MaxTitleTokens)

\* String.prototype.toLowerCase, token by token
toLowerCase(tok) ==
  CASE tok = "Bonus" -> "bonus"
    [] tok = "COMPILATION" -> "compilation"
    [] OTHER -> tok

\* metadata.itunes is absent, or carries episode and episodeType, each of
\* which may be absent; an absent title is tested as the text "undefined",
\* which has none of the features below, like the empty title <<>>.
NoItunes == [present |-> FALSE]
Itunes(ep, type) == [present |-> TRUE, episode |-> ep, episodeType |-> type]
ItunesValues ==
  {NoItunes} \cup {Itunes(ep, type) : ep \in {Absent, "", "601"},
                                      type \in {Absent, "full", "bonus", "trailer"}}
MetadataInputs == [itunes : ItunesValues, title : Titles]

\* metadata.itunes?.episode and metadata.itunes?.episodeType
itunesEpisode(m) == IF m.itunes.present THEN m.itunes.episode ELSE Absent
itunesEpisodeType(m) == IF m.itunes.present THEN m.itunes.episodeType ELSE Absent

\* JavaScript truthiness of a string-or-undefined value
Truthy(v) == v # Absent /\ v # ""

\* /^\d+[.:]/ : one or more digits at the start, then "." or ":"
RECURSIVE MatchesLeadingNumber(_)
MatchesLeadingNumber(t) ==
  /\ Len(t) >= 2
  /\ t[1] \in Digits
  /\ (t[2] \in {".", ":"} \/ MatchesLeadingNumber(Tail(t)))

\* /compilation/ on a text, and /^bonus/ on a text
ContainsCompilation(t) == \E k \in 1..Len(t) : t[k] = "compilation"
StartsWithBonus(t) == Len(t) >= 1 /\ t[1] = "bonus"
LowerTitle(t) == [k \in 1..Len(t) |-> toLowerCase(t[k])]

hasEpisodeNumber(m) == Truthy(itunesEpisode(m)) /\ itunesEpisodeType(m) # "bonus"
isFullEpisode(m) == itunesEpisodeType(m) = "full"
titleHasNumber(m) == MatchesLeadingNumber(m.title)
\* the flag i makes the whole pattern case-insensitive
titleHasCompilationOrBonus(m) ==
  ContainsCompilation(LowerTitle(m.title)) \/ StartsWithBonus(LowerTitle(m.title))

\* the documented rule: the three conditions and nothing else
isStandard_ThreeConditions(m) ==
  hasEpisodeNumber(m) \/ isFullEpisode(m) \/ titleHasNumber(m)

isStandard(m) ==
  (hasEpisodeNumber(m) \/ isFullEpisode(m) \/ titleHasNumber(m))
    /\ ~titleHasCompilationOrBonus(m)

\* a variant that looks for "compilation" without lowering the title
episodeType_CaseSensitive(m) ==
  IF itunesEpisodeType(m) = "bonus"
  THEN (IF ContainsCompilation(m.title) THEN "compilation" ELSE "bonus")
  ELSE "other"

\* the type given to an episode that is not standard
episodeType(m) ==
  IF itunesEpisodeType(m) = "bonus"
  THEN (IF ContainsCompilation(LowerTitle(m.title)) THEN "compilation" ELSE "bonus")
  ELSE "other"

classify(m) == IF isStandard(m) THEN "standard" ELSE episodeType(m)

\* the facts.json of an episode that is not standard
EmptyFacts(type) == [episode_type |-> type, episode_summary |-> "", facts |-> <<>>]

Routed(class, queued) == [done |-> TRUE, classification |-> class, queued |-> queued]

InitClassifier ==
  /\ apiKey = TRUE
  /\ InitRun
  /\ InitRetryIdle
  /\ InitDownloadIdle
  /\ InitNormalizerIdle
  /\ content = NoContent /\ obj = NoObj /\ parsedEpisode = NoResult
  /\ written \in {NoFile, File(GoodStandard)}
  /\ metadata \in MetadataInputs
  /\ routed = NoRoute
  /\ argv = NoFlag
  /\ toProcess = NotSliced(<<>>)

\* a variant that queues every episode without facts.json
RouteEpisode_QueuesAll ==
  /\ metadata # NoMetadata
  /\ routed = NoRoute
  /\ written = NoFile
  /\ routed' = Routed(classify(metadata), TRUE)
  /\ UNCHANGED <<written, metadata>>
  /\ UNCHANGED <<content, obj, parsedEpisode, argv, toProcess, nvars, lvars, qvars,
                 rvars, tvars, hvars, bvars, pvars>>

\* One iteration of the loop of main() for an episode that was processed
\* successfully and has no facts.json: a standard episode is pushed onto
\* vttPaths, any other gets its empty facts.json at once.
RouteEpisode ==
  /\ metadata # NoMetadata
  /\ routed = NoRoute
  /\ written = NoFile
  /\ IF isStandard(metadata)
     THEN /\ routed' = Routed("standard", TRUE)
          /\ UNCHANGED written
     ELSE /\ routed' = Routed(episodeType(metadata), FALSE)
          /\ written' = File(EmptyFacts(episodeType(metadata)))
  /\ UNCHANGED metadata
  /\ UNCHANGED <<content, obj, parsedEpisode, argv, toProcess, nvars, lvars, qvars,
                 rvars, tvars, hvars, bvars, pvars>>

\* "if (!factsExist)" is false: the episode is left as it is.
RouteEpisodeWithFacts ==
  /\ metadata # NoMetadata
  /\ routed = NoRoute
  /\ written # NoFile
  /\ routed' = Routed("unclassified", FALSE)
  /\ UNCHANGED <<written, metadata>>
  /\ UNCHANGED <<content, obj, parsedEpisode, argv, toProcess, nvars, lvars, qvars,
                 rvars, tvars, hvars, bvars, pvars>>

NextClassifier == RouteEpisode \/ RouteEpisodeWithFacts

SpecClassifier == InitClassifier /\ [][NextClassifier]_vars

(***************************************************************************)
(* Claims about the Episode Classifier (checked under SpecClassifier)      *)
(***************************************************************************)
Classified == routed.done /\ routed.classification # "unclassified"

\* The rule the classification is compared with, as a decision list over the
\* features of the metadata.
ReferenceClass(m) ==
  LET type == IF m.itunes.present THEN m.itunes.episodeType ELSE Absent
      numbered == m.itunes.present /\ m.itunes.episode \notin {Absent, ""}
      low == [k \in 1..Len(m.title) |-> toLowerCase(m.title[k])]
      compilation == "compilation" \in {low[k] : k \in 1..Len(low)}
      excluded == compilation \/ (low # <<>> /\ low[1] = "bonus")
      candidate == (numbered /\ type # "bonus") \/ type = "full"
                     \/ MatchesLeadingNumber(m.title)
  IN  CASE candidate /\ ~excluded -> "standard"
        [] ~(candidate /\ ~excluded) /\ type = "bonus" /\ compilation -> "compilation"
        [] ~(candidate /\ ~excluded) /\ type = "bonus" /\ ~compilation -> "bonus"
        [] OTHER -> "other"

C23_OnlyStandardEpisodesQueued ==
  Classified =>
     /\ routed.queued <=> classify(metadata) = "standard"
     /\ routed.queued => written = NoFile
     /\ ~routed.queued =>
          /\ written = File([episode_type |-> classify(metadata),
                             episode_summary |-> "", facts |-> <<>>])
          /\ classify(metadata) \in {"compilation", "bonus", "other"}

C23_Witness ==
  /\ Classified
  /\ ~routed.queued
  /\ written # NoFile
  /\ written.data.episode_type = "bonus"

(***************************************************************************)
(* The --limit option of process-episodes and extract-facts-only           *)
(***************************************************************************)
MaxCandidates == 5
MaxLimit == 4

\* What follows "--limit": nothing (the flag is the last argument), an empty
\* argument, a word, another flag, or the decimal text of an integer.
NoValue == [kind |-> "undefined"]
Word(w) == [kind |-> "text", text |-> w]
Numeral(n) == [kind |-> "numeral", n |-> n]
LimitValues ==
  {NoValue, Word(""), Word("abc"), Word("--force")} \cup {Numeral(n) : n \in -1..MaxLimit}
Flag(v) == [flag |-> TRUE, value |-> v]
ArgvInputs == {NoFlag} \cup {Flag(v) : v \in LimitValues}
CandidateLists == {[k \in 1..n |-> k] : n \in 0..MaxCandidates}

NaN == [nan |-> TRUE]
Number(n) == [nan |-> FALSE, n |-> n]
Undefined == [undefined |-> TRUE]

\* parseInt(text): the integer a numeral denotes, NaN for any other text
parseInt(v) == IF v.kind = "numeral" THEN Number(v.n) ELSE NaN

\* args[i + 1] || "0": an absent or empty argument is replaced by "0"
OrZero(v) == IF v = NoValue \/ v = Word("") THEN Numeral(0) ELSE v

\* const limit = args.includes("--limit") ? parseInt(args[i + 1] || "0") : undefined
limit(args) == IF args.flag THEN parseInt(OrZero(args.value)) ELSE Undefined

\* the condition "limit ?": undefined, NaN and 0 are falsy
LimitTruthy(l) == l # Undefined /\ l # NaN /\ l.n # 0

\* Array.prototype.slice(0, end): a negative end counts from the end
slice(list, end) ==
  LET stop == IF end < 0 THEN Max(Len(list) + end, 0)
              ELSE IF end > Len(list) THEN Len(list) ELSE end
  IN  SubSeq(list, 1, stop)

\* const episodesToProcess = limit ? list.slice(0, limit) : list
episodesToProcess(args, list) ==
  IF LimitTruthy(limit(args)) THEN slice(list, limit(args).n) ELSE list

Sliced(list, episodes) == [done |-> TRUE, candidates |-> list, episodes |-> episodes]

InitLimit ==
  /\ apiKey = TRUE
  /\ InitRun
  /\ InitRetryIdle
  /\ InitDownloadIdle
  /\ InitNormalizerIdle
  /\ InitValidatorIdle
  /\ metadata = NoMetadata
  /\ routed = NoRoute
  /\ argv \in ArgvInputs
  /\ toProcess \in {NotSliced(list) : list \in CandidateLists}

\* "if (allEpisodes.length === 0) return": nothing is processed.
NothingToProcess ==
  /\ ~toProcess.done
  /\ toProcess.candidates = <<>>
  /\ toProcess' = Sliced(<<>>, <<>>)
  /\ UNCHANGED <<argv, metadata, routed, nvars, lvars, qvars, vvars, rvars, tvars, hvars,
                 bvars, pvars>>

\* main() up to the computation of episodesToProcess
ApplyLimit ==
  /\ ~toProcess.done
  /\ toProcess.candidates # <<>>
  /\ toProcess' = Sliced(toProcess.candidates,
                         episodesToProcess(argv, toProcess.candidates))
  /\ UNCHANGED <<argv, metadata, routed, nvars, lvars, qvars, vvars, rvars, tvars, hvars,
                 bvars, pvars>>

NextLimit == NothingToProcess \/ ApplyLimit

SpecLimit == InitLimit /\ [][NextLimit]_vars

\* C26: when "--limit N" is given, at most N episodes are processed, and they
\* are the first N of the candidate list, for every integer N >= 0; N = 0
\* included, and a --limit whose value is missing counts as 0.
C26_LimitCapsEpisodes ==
  (toProcess.done /\ argv.flag) =>
     LET v == argv.value
         N == IF v.kind = "numeral" THEN v.n ELSE 0
     IN  (v.kind \in {"numeral", "undefined"} /\ N >= 0) =>
            /\ Len(toProcess.episodes) <= N
            /\ \A k \in 1..Len(toProcess.episodes) :
                  toProcess.episodes[k] = toProcess.candidates[k]

\* For N >= 1 the cap holds: the first min(N, length) candidates are taken.
C26_PositiveLimitCaps ==
  (toProcess.done /\ argv.flag /\ argv.value.kind = "numeral" /\ argv.value.n >= 1) =>
     /\ Len(toProcess.episodes) = IF argv.value.n < Len(toProcess.candidates)
                                  THEN argv.value.n ELSE Len(toProcess.candidates)
     /\ \A k \in 1..Len(toProcess.episodes) :
           toProcess.episodes[k] = toProcess.candidates[k]

C26_Witness ==
  /\ toProcess.done /\ argv.flag /\ argv.value.kind = "numeral"
  /\ argv.value.n = 2
  /\ Len(toProcess.candidates) = 3
  /\ Len(toProcess.episodes) = 2

(***************************************************************************)
(* extractJson on texts of every shape                                     *)
(***************************************************************************)
MaxSegments == 4

SegmentAlphabet == {Fence, Prose, Open, Close, Json(GoodStandard), Json(EmptyBonus), Scalar}
SegmentTexts ==
  {[form |-> "segments", body |-> NoObj, segs |-> t] :
      t \in SeqsUpTo(SegmentAlphabet, MaxSegments)}

InitExtractJson ==
  /\ apiKey = TRUE
  /\ InitRun
  /\ InitRetryIdle
  /\ InitDownloadIdle
  /\ InitNormalizerIdle
  /\ InitClassifierIdle
  /\ content \in SegmentTexts
  /\ obj = NoObj
  /\ parsedEpisode = NoResult
  /\ written = NoFile

\* obj = extractJson(text) returned a value
ExtractReturns ==
  /\ content # NoContent
  /\ obj = NoObj
  /\ extractJson(content).ok
  /\ obj' = [returned |-> TRUE, value |-> extractJson(content).value]
  /\ UNCHANGED <<content, parsedEpisode, written, rvars, tvars, hvars, bvars, pvars, xvars>>

\* extractJson(text) threw
ExtractThrows ==
  /\ content # NoContent
  /\ obj = NoObj
  /\ ~extractJson(content).ok
  /\ obj' = [returned |-> FALSE, value |-> NoObj]
  /\ UNCHANGED <<content, parsedEpisode, written, rvars, tvars, hvars, bvars, pvars, xvars>>

NextExtractJson == ExtractReturns \/ ExtractThrows

SpecExtractJson == InitExtractJson /\ [][NextExtractJson]_vars

\* The three candidates of a text, in order: the whole text, the interior of
\* its first fenced block, the slice from its first "{" to its last "}".
\* A candidate that does not exist is the empty text, which does not parse.
FirstFenceInterior(segs) ==
  IF \E a, b \in 1..Len(segs) : a < b /\ segs[a] = Fence /\ segs[b] = Fence
  THEN LET a == CHOOSE x \in 1..Len(segs) :
                   segs[x] = Fence /\ \A y \in 1..(x - 1) : segs[y] # Fence
           b == CHOOSE x \in (a + 1)..Len(segs) :
                   segs[x] = Fence /\ \A y \in (a + 1)..(x - 1) : segs[y] # Fence
       IN  SubSeq(segs, a + 1, b - 1)
  ELSE <<>>

HasOpen(seg) == seg.kind \in {"open", "json"}
HasClose(seg) == seg.kind \in {"close", "json"}

FirstOpenToLastClose(segs) ==
  IF \E a, b \in 1..Len(segs) : a <= b /\ HasOpen(segs[a]) /\ HasClose(segs[b])
  THEN LET a == CHOOSE x \in 1..Len(segs) :
                   HasOpen(segs[x]) /\ \A y \in 1..(x - 1) : ~HasOpen(segs[y])
           b == CHOOSE x \in 1..Len(segs) :
                   HasClose(segs[x]) /\ \A y \in (x + 1)..Len(segs) : ~HasClose(segs[y])
       IN  SubSeq(segs, a, b)
  ELSE <<>>

Candidate(k, segs) ==
  CASE k = 1 -> segs
    [] k = 2 -> FirstFenceInterior(segs)
    [] k = 3 -> FirstOpenToLastClose(segs)

IsJsonText(segs) == Len(segs) = 1 /\ segs[1].kind \in {"json", "scalar"}

\* C27: extractJson returns the value of the first of its three candidates
\* that parses (whole text, interior of the first fenced block, slice from
\* the first "{" to the last "}"), and raises an error if and only if none
\* of the three parses.
C27_FirstStrategyThatParses ==
  (obj # NoObj /\ content.form = "segments") =>
     LET parsing == {k \in 1..3 : IsJsonText(Candidate(k, content.segs))}
     IN  /\ obj.returned <=> parsing # {}
         /\ obj.returned =>
              \E k \in parsing :
                 /\ \A j \in parsing : k <= j
                 /\ obj.value = Candidate(k, content.segs)[1].value

\* the fenced block and the brace slice both parse and differ: the fenced
\* block wins
C27_Witness ==
  /\ obj # NoObj /\ content.form = "segments"
  /\ obj.returned
  /\ ~IsJsonText(content.segs)
  /\ IsJsonText(FirstFenceInterior(content.segs))
  /\ IsJsonText(FirstOpenToLastClose(content.segs))
  /\ FirstFenceInterior(content.segs) # FirstOpenToLastClose(content.segs)

(***************************************************************************)
(* Transcript Normalizer: the cue extraction and the records of            *)
(* prepareVttFile, with secondsToHHMMSS and sanitizeCsvText of text.ts     *)
(***************************************************************************)
MaxCues == 2
CueMs == 1500                 \* the length of a cue of the input set
HundredHoursMs == 100 * 3600 * 1000   \* the first offset whose hour count has 3 digits

\* Texts are sequences of characters; "\n" stands for any white space other
\* than the space.
WhiteSpace == {" ", "\n"}
CueTexts ==
  SeqsUpTo({"a", " ", "\n"}, 2)
    \cup {<<"a", " ", "\n", "a">>, <<" ", "a", " ">>, <<"a", "\n", "a">>}
CueOffsets == {0, 999, 1000, 59999, 3599999, HundredHoursMs - 1, HundredHoursMs}

\* An entry of the parsed subtitle file: from and to in milliseconds.
Cue(from, to, text) == [from |-> from, to |-> to, text |-> text]
CueInputs == {Cue(ms, ms + CueMs, t) : ms \in CueOffsets, t \in CueTexts}
CueSequences == SeqsUpTo(CueInputs, MaxCues)

\* A number of seconds, kept as an exact fraction.
DividedBy1000(ms) == [num |-> ms, den |-> 1000]
Floor(q) == q.num \div q.den

DigitChar(n) ==
  CASE n = 0 -> "0" [] n = 1 -> "1" [] n = 2 -> "2" [] n = 3 -> "3" [] n = 4 -> "4"
    [] n = 5 -> "5" [] n = 6 -> "6" [] n = 7 -> "7" [] n = 8 -> "8" [] n = 9 -> "9"
DigitChars == {DigitChar(n) : n \in 0..9}
DigitValue(c) == CHOOSE n \in 0..9 : DigitChar(n) = c

\* String(n) for a natural number
RECURSIVE String(_)
String(n) == IF n < 10 THEN <<DigitChar(n)>> ELSE String(n \div 10) \o <<DigitChar(n % 10)>>

\* padStart(width, "0")
RECURSIVE padStart(_, _)
padStart(str, width) == IF Len(str) >= width THEN str ELSE padStart(<<"0">> \o str, width)

HHMMSS(total) ==
  padStart(String(total \div 3600), 2) \o <<":">>
    \o padStart(String((total % 3600) \div 60), 2) \o <<":">>
    \o padStart(String(total % 60), 2)

\* a variant that rounds to the nearest second
secondsToHHMMSS_Rounds(sec) == HHMMSS(Max((2 * sec.num + sec.den) \div (2 * sec.den), 0))

\* total = Math.max(0, Math.floor(s))
secondsToHHMMSS(sec) == HHMMSS(Max(Floor(sec), 0))

\* text.replace(/\s+/g, " "): every run of white space becomes one space
RECURSIVE CollapseWhiteSpace(_)
CollapseWhiteSpace(t) ==
  IF t = <<>> THEN <<>>
  ELSE IF Head(t) \in WhiteSpace
       THEN IF Len(t) >= 2 /\ t[2] \in WhiteSpace
            THEN CollapseWhiteSpace(Tail(t))
            ELSE <<" ">> \o CollapseWhiteSpace(Tail(t))
       ELSE <<Head(t)>> \o CollapseWhiteSpace(Tail(t))

\* String.prototype.trim
RECURSIVE trim(_)
trim(t) ==
  IF t = <<>> THEN <<>>
  ELSE IF Head(t) \in WhiteSpace THEN trim(Tail(t))
  ELSE IF t[Len(t)] \in WhiteSpace THEN trim(SubSeq(t, 1, Len(t) - 1))
  ELSE t

sanitizeCsvText(t) == trim(CollapseWhiteSpace(t))

\* "(c.from || 0) / 1000": the cue in seconds, as written to transcript.json
ExtractCue(c) ==
  [start |-> DividedBy1000(c.from), end |-> DividedBy1000(c.to), text |-> c.text]

\* One record of the CSV
Record(c) ==
  [start_hhmmss |-> secondsToHHMMSS(c.start),
   end_hhmmss |-> secondsToHHMMSS(c.end),
   text |-> sanitizeCsvText(c.text)]

\* a variant that emits the records last cue first
records_Reversed(list) ==
  [k \in 1..Len(list) |-> Record(ExtractCue(list[Len(list) + 1 - k]))]

\* cues.map(...) twice: one record per cue, in the order of the cues
records(list) == [k \in 1..Len(list) |-> Record(ExtractCue(list[k]))]

\* stringify(records, {header: true, columns}): the header line and one line
\* per record
Columns == <<"start_hhmmss", "end_hhmmss", "text">>
stringify(recs) ==
  <<Columns>> \o [k \in 1..Len(recs) |-> <<recs[k].start_hhmmss, recs[k].end_hhmmss, recs[k].text>>]

Normalized(list) ==
  [done |-> TRUE,
   json |-> [k \in 1..Len(list) |-> ExtractCue(list[k])],
   records |-> records(list),
   csv |-> stringify(records(list))]

\* Reading the dumps back as cues in milliseconds: a line of the CSV gives
\* whole seconds, an entry of transcript.json gives the seconds it stores.
RECURSIVE NumberOf(_)
NumberOf(str) ==
  IF str = <<>> THEN 0 ELSE 10 * NumberOf(SubSeq(str, 1, Len(str) - 1)) + DigitValue(str[Len(str)])

FirstColon(str) == CHOOSE k \in 1..Len(str) : str[k] = ":" /\ \A j \in 1..(k - 1) : str[j] # ":"
SecondsOf(str) ==
  LET a == FirstColon(str)
      rest == SubSeq(str, a + 1, Len(str))
      b == FirstColon(rest)
  IN  3600 * NumberOf(SubSeq(str, 1, a - 1)) + 60 * NumberOf(SubSeq(rest, 1, b - 1))
        + NumberOf(SubSeq(rest, b + 1, Len(rest)))

\* 1000 times a fraction of seconds, in whole milliseconds
Milliseconds(q) == 1000 * (q.num \div q.den) + (1000 * (q.num % q.den)) \div q.den

CuesOfCsv(csv) ==
  [k \in 1..(Len(csv) - 1) |->
     Cue(1000 * SecondsOf(csv[k + 1][1]), 1000 * SecondsOf(csv[k + 1][2]), csv[k + 1][3])]

\* a variant that takes the stored seconds for milliseconds
CuesOfJson_SecondsAsMilliseconds(json) ==
  [k \in 1..Len(json) |-> Cue(Floor(json[k].start), Floor(json[k].end), json[k].text)]

CuesOfJson(json) ==
  [k \in 1..Len(json) |->
     Cue(Milliseconds(json[k].start), Milliseconds(json[k].end), json[k].text)]

InitNormalizer ==
  /\ apiKey = TRUE
  /\ InitRun
  /\ InitRetryIdle
  /\ InitDownloadIdle
  /\ InitClassifierIdle
  /\ InitValidatorIdle
  /\ cues \in CueSequences
  /\ rows = NoRows
  /\ again = NoRows

nframe == <<cvars, lvars, qvars, vvars, rvars, tvars, hvars, bvars, pvars>>

\* prepareVttFile from the parsed cues to the CSV
Normalize ==
  /\ rows = NoRows
  /\ rows' = Normalized(cues)
  /\ UNCHANGED <<cues, again, nframe>>

\* the CSV dump read back and normalized again
RenormalizeCsv ==
  /\ rows # NoRows
  /\ again = NoRows
  /\ again' = Normalized(CuesOfCsv(rows.csv))
  /\ UNCHANGED <<cues, rows, nframe>>

\* the JSON dump read back and normalized again
RenormalizeJson ==
  /\ rows # NoRows
  /\ again = NoRows
  /\ again' = Normalized(CuesOfJson(rows.json))
  /\ UNCHANGED <<cues, rows, nframe>>

NextNormalizer == Normalize \/ RenormalizeCsv \/ RenormalizeJson

SpecNormalizer == InitNormalizer /\ [][NextNormalizer]_vars

(***************************************************************************)
(* Claims about the Transcript Normalizer (checked under SpecNormalizer)   *)
(***************************************************************************)
\* C28: the records, and the CSV built from them, hold exactly one row per
\* input cue, and row k is derived from cue k, for every cue sequence, the
\* empty one included.
C28_OneRowPerCueInOrder ==
  rows # NoRows =>
     /\ Len(rows.records) = Len(cues)
     /\ Len(rows.csv) = Len(cues) + 1
     /\ \A k \in 1..Len(cues) :
           /\ rows.records[k].text = sanitizeCsvText(cues[k].text)
           /\ SecondsOf(rows.records[k].start_hhmmss) = cues[k].from \div 1000
           /\ SecondsOf(rows.records[k].end_hhmmss) = cues[k].to \div 1000
           /\ rows.csv[k + 1] = <<rows.records[k].start_hhmmss,
                                  rows.records[k].end_hhmmss, rows.records[k].text>>

\* two cues that differ in time and in text, the later one first
C28_Witness ==
  /\ rows # NoRows
  /\ Len(cues) = 2
  /\ cues[1].from > cues[2].from
  /\ rows.records[1].text # rows.records[2].text
  /\ rows.records[1].start_hhmmss # rows.records[2].start_hhmmss

TwoDigitFields(str) ==
  /\ Len(str) = 8
  /\ str[3] = ":" /\ str[6] = ":"
  /\ \A k \in {1, 2, 4, 5, 7, 8} : str[k] \in DigitChars

\* hours of two or more digits, then ":MM:SS"
PaddedFields(str) ==
  /\ Len(str) >= 8
  /\ str[Len(str) - 2] = ":" /\ str[Len(str) - 5] = ":"
  /\ \A k \in 1..Len(str) : k \notin {Len(str) - 2, Len(str) - 5} => str[k] \in DigitChars
  /\ NumberOf(SubSeq(str, Len(str) - 4, Len(str) - 3)) < 60
  /\ NumberOf(SubSeq(str, Len(str) - 1, Len(str))) < 60

Stamps == IF rows = NoRows THEN {}
          ELSE {<<cues[k].from, rows.records[k].start_hhmmss>> : k \in 1..Len(cues)}
                 \cup {<<cues[k].to, rows.records[k].end_hhmmss>> : k \in 1..Len(cues)}

C25_ForceReplacesOnlyWithValidated ==
  [][(force /\ pc \in {"prepare", "wait", "sleep", "request", "backoff", "tally"}
        /\ pc' # "killed") =>
       /\ \A e \in Episodes : ~Gated(e, force)
       /\ (pc = "prepare" /\ i <= NumEpisodes) => ENABLED PrepareOk
       /\ \A e \in Episodes :
            (facts[e].exists /\ facts'[e] # facts[e]) =>
               /\ e = i /\ pc = "request" /\ reqs'[e] = reqs[e] + 1
               /\ CompleteArtifact(facts'[e])
               /\ success']_vars

\* A forced call in which an episode that had a complete facts.json is asked
\* again and its attempt fails.
C25_Witness ==
  /\ force
  /\ pc \in {"request", "tally"}
  /\ i \in Episodes
  /\ reqs[i] >= 1
  /\ ~success
  /\ attemptLog # <<>>
  /\ prev.ran /\ prev.wrote[i] > 0

\* What holds of a forced call: no episode is gated, the request path is open
\* to every episode, and facts.json changes only inside an attempt that
\* reached writeJson, to the validated record or to a partly written file.
C25_ForceBypassesGate ==
  [][(force /\ pc \in {"prepare", "wait", "sleep", "request", "backoff", "tally"}
        /\ pc' # "killed") =>
       /\ \A e \in Episodes : ~Gated(e, force)
       /\ (pc = "prepare" /\ i <= NumEpisodes) => ENABLED PrepareOk
       /\ \A e \in Episodes :
            (facts[e].exists /\ facts'[e] # facts[e]) =>
               /\ e = i /\ pc = "request" /\ reqs'[e] = reqs[e] + 1
               /\ \/ CompleteArtifact(facts'[e]) /\ success'
                  \/ facts'[e] = PartialFile /\ ~success']_vars

(***************************************************************************)
(* Discovery and selection: discover.ts, the main() of process-episodes    *)
(* that marks episodes as processed, and the scan of extract-facts-only    *)
(***************************************************************************)
\* a variant that does not consult the index
discoverNewEpisodes_IgnoresIndex(index) == Episodes

\* discoverNewEpisodes(): the feed items whose id is not in index.processed;
\* the feed lists every episode.
discoverNewEpisodes(index) == {e \in Episodes : e \notin index}

\* findEpisodesWithTranscripts(force): the directories that hold a
\* transcript and, unless forced, no facts.json.
findEpisodesWithTranscripts(f) ==
  {e \in transcripts : f \/ ~facts[e].exists}

\* The store after extractFactsFromVtt wrote facts.json for the episodes of
\* done.
AfterExtraction(done) ==
  [e \in Episodes |-> IF e \in done THEN File(GoodStandard) ELSE facts[e]]

lframe == <<vvars, cvars, nvars, qvars, tvars, hvars, bvars, apiKey, exitCode, reported,
            preWork, pc, i, ok, fail, skipped, clock, timer>>

InitLedger ==
  /\ apiKey = TRUE
  /\ InitRun
  /\ InitRetryIdle
  /\ InitDownloadIdle
  /\ InitClassifierIdle
  /\ InitNormalizerIdle
  /\ InitValidatorIdle

\* One invocation of process-episodes: discover, process each new episode
\* (download, transcribe; either may fail), collect the episodes without
\* facts.json, mark the others as processed, extract, and mark the collected
\* episodes whose facts.json now exists.
RunProcessEpisodes ==
  /\ run < MaxRuns
  /\ run' = run + 1
  /\ entry' = "process-episodes"
  /\ force' = FALSE
  /\ \E successful \in SUBSET discoverNewEpisodes(processed) :
       LET queued == {e \in successful : ~facts[e].exists} IN
       /\ statsFailed' = Cardinality(discoverNewEpisodes(processed) \ successful)
       /\ transcripts' = transcripts \cup successful
       /\ selected' = queued
       /\ \E done \in SUBSET queued :
            /\ facts' = AfterExtraction(done)
            /\ processed' = processed \cup (successful \ queued) \cup done
  /\ UNCHANGED lframe

\* One invocation of extract-facts-only, with or without --force.
RunExtractFactsOnly ==
  /\ run < MaxRuns
  /\ run' = run + 1
  /\ entry' = "extract-facts-only"
  /\ force' \in BOOLEAN
  /\ selected' = findEpisodesWithTranscripts(force')
  /\ \E done \in SUBSET selected' : facts' = AfterExtraction(done)
  /\ UNCHANGED <<processed, transcripts, statsFailed, lframe>>

\* The user deletes the facts.json of an episode.
DeleteFacts ==
  /\ \E e \in Episodes :
       /\ facts[e].exists
       /\ facts' = [facts EXCEPT ![e] = NoFile]
  /\ UNCHANGED <<run, force, entry, statsFailed, lvars, lframe>>

NextLedger == RunProcessEpisodes \/ RunExtractFactsOnly \/ DeleteFacts

SpecLedger == InitLedger /\ [][NextLedger]_vars

\* A step that is one whole invocation without the force flag.
UnforcedRun == run' = run + 1 /\ ~force'

C31_InvalidOutputRetried ==
  /\ \A k \in 1..Len(attemptLog) :
        (attemptLog[k] = "invalid" /\ k < Retries) =>
           \/ Len(attemptLog) > k
           \/ pc = "request" /\ attempt = k + 1 /\ reqs[i] = k
  /\ (pc = "tally" /\ ~success) => (Len(attemptLog) = Retries /\ reqs[i] = Retries)
  /\ \A e \in Episodes : reqs[e] <= Retries

\* three invalid outputs in a row: the episode is about to be counted failed
C31_Witness ==
  /\ pc = "tally" /\ ~success
  /\ attemptLog = <<"invalid", "invalid", "invalid">>
  /\ reqs[i] = 3

(***************************************************************************)
(* TokenTracker on its own: any sequence of waitForCapacity, add and       *)
(* getUsage calls, with requests that may exceed the capacity              *)
(***************************************************************************)
MaxAdds == 3                  \* add calls in one behaviour
SmallRequest == 610000        \* estimates of the requests offered
LargeRequest == 1200000
OversizeRequest == 1900000    \* more than the capacity of 1,800,000
IdleMs == 25000               \* time that passes before a getUsage call

TrackerRequests == {SmallRequest, LargeRequest, OversizeRequest}

tframe == <<facts, run, force, i, ok, fail, skipped, success, reqs, wrote, tally,
            prev, attemptLog, sleepLog, vvars, pvars, xvars, bvars>>

InitTracker ==
  /\ apiKey = TRUE
  /\ InitRun
  /\ InitRetryIdle
  /\ InitDownloadIdle
  /\ InitClassifierIdle
  /\ InitNormalizerIdle
  /\ InitValidatorIdle

\* await tokenTracker.waitForCapacity(estimatedTokens) is called. A call is
\* started only while the clock leaves room for the longest wait.
CallWaitForCapacity ==
  /\ pc = "idle"
  /\ Len(addLog) < MaxAdds
  /\ clock + 2 * WindowMs <= MaxClock
  /\ \E tokens \in TrackerRequests : estimatedTokens' = tokens
  /\ pc' = "wait"
  /\ UNCHANGED <<tokensUsed, attempt, clock, timer, addLog, tframe>>

\* After waitForCapacity returned: the request takes its time, then
\* tokenTracker.add(estimatedTokens).
CallAdd ==
  /\ pc = "request"
  /\ clock + RequestMs <= MaxClock
  /\ clock' = clock + RequestMs
  /\ tokensUsed' = add(estimatedTokens, tokensUsed, clock')
  /\ addLog' = Append(addLog, [timestamp |-> clock', tokens |-> estimatedTokens])
  /\ estimatedTokens' = 0
  /\ attempt' = 0
  /\ pc' = "idle"
  /\ UNCHANGED <<timer, tframe>>

\* tokenTracker.getUsage() some time after the latest call
CallGetUsage ==
  /\ pc = "idle"
  /\ tokensUsed # <<>>
  /\ clock + IdleMs <= MaxClock
  /\ clock' = clock + IdleMs
  /\ tokensUsed' = cleanup(tokensUsed, clock')
  /\ UNCHANGED <<pc, estimatedTokens, attempt, timer, addLog, tframe>>

NextTracker ==
  \/ CallWaitForCapacity
  \/ WaitForCapacity
  \/ CapacitySleep
  \/ CallAdd
  \/ CallGetUsage

SpecTracker == InitTracker /\ [][NextTracker]_vars

\* setTimeout fires and the loop condition is evaluated: the clock advances.
SpecTrackerFair ==
  SpecTracker /\ WF_vars(WaitForCapacity) /\ WF_vars(CapacitySleep)

(***************************************************************************)
(* Claims about the TokenTracker (checked under SpecTracker)               *)
(***************************************************************************)
Waiting == pc \in {"wait", "sleep"}

\* C33: waitForCapacity(tokens) returns if and only if tokens <= capacity.
\* With tokens <= capacity it returns, and it sleeps only while the window
\* holds an entry younger than 60 s; with tokens > capacity it never
\* returns, even with an empty window.
C33_ReturnsIffWithinCapacity ==
  /\ (Waiting /\ estimatedTokens <= Capacity) ~> (pc = "request")
  /\ [](pc = "sleep" /\ estimatedTokens <= Capacity =>
          \E k \in 1..Len(tokensUsed) : tokensUsed[k].timestamp > clock - WindowMs)
  /\ [](estimatedTokens > Capacity => pc # "request")

\* a request within capacity returned after the call had to sleep
C33_Witness ==
  /\ pc = "request"
  /\ estimatedTokens = LargeRequest
  /\ Len(addLog) = 2
  /\ SumTokens(addLog) + estimatedTokens > Capacity
  \* the call returned at the very millisecond the last entry left the
  \* window, which only its own one-second sleeps arrive at
  /\ clock = addLog[2].timestamp + WindowMs
  /\ tokensUsed = <<>>

\* the least whole number of seconds in which capacity / 60 tokens per
\* second make up for the overage
SecondsFor(overage) ==
  CHOOSE n \in 0..120 : /\ n * (Capacity \div 60) >= overage
                        /\ (n - 1) * (Capacity \div 60) < overage

\* C34: an iteration of waitForCapacity that finds no capacity sleeps
\* max(1 s, ceil(overage / (capacity / 60)) s) for the overage
\* usage + tokens - capacity > 0, never less than 1 second; after the sleep
\* canAdd is evaluated again, and the call returns only from an evaluation
\* that found capacity.
C34_SleepProportionalToOverage ==
  [][LET overage == SumTokens(tokensUsed') + estimatedTokens - Capacity IN
     /\ (pc = "wait" /\ pc' = "sleep") =>
           /\ overage > 0
           /\ timer' >= 1000
           /\ timer' = Max(1000, 1000 * SecondsFor(overage))
     /\ pc = "sleep" => (pc' = "wait" /\ clock' = clock + timer /\ timer >= 1000)
     /\ (pc # "request" /\ pc' = "request") => (pc = "wait" /\ overage <= 0)]_vars

\* an overage that is not a whole number of seconds' worth of tokens
C34_Witness ==
  /\ pc = "sleep"
  /\ SumTokens(tokensUsed) = 2 * SmallRequest
  /\ estimatedTokens = LargeRequest
  /\ (2 * SmallRequest + LargeRequest - Capacity) % (Capacity \div 60) # 0
  /\ timer = 1000 * SecondsFor(2 * SmallRequest + LargeRequest - Capacity)

\* The entries are younger than 60 s at time now, oldest first.
WindowFresh(used, now) ==
  /\ \A k \in 1..Len(used) : now - used[k].timestamp < WindowMs
  /\ \A j, k \in 1..Len(used) : j <= k => used[j].timestamp <= used[k].timestamp

\* The entries recorded so far that are younger than 60 s at time now.
RecordedWithin(log, now) == SelectSeq(log, LAMBDA t : now - t.timestamp < WindowMs)

\* C35: after any add, getUsage or canAdd call the window holds exactly the
\* recorded entries that are less than 60 seconds old, in non-decreasing
\* timestamp order; getUsage is their sum, and canAdd(t) is true if and only
\* if that sum + t <= capacity.
C35_WindowHoldsFreshEntries ==
  [][(CallAdd \/ CallGetUsage \/ WaitForCapacity) =>
       /\ WindowFresh(tokensUsed', clock')
       /\ tokensUsed' = RecordedWithin(addLog', clock')
       /\ getUsage(tokensUsed', clock') = SumTokens(RecordedWithin(addLog', clock'))
       /\ WaitForCapacity =>
            (pc' = "request" <=>
               SumTokens(RecordedWithin(addLog, clock)) + estimatedTokens <= Capacity)]_vars

\* an entry has aged out of the window while a younger one is kept
C35_Witness ==
  /\ Len(addLog) >= 2
  /\ Len(tokensUsed) = 1
  /\ tokensUsed[1] = addLog[Len(addLog)]
  /\ clock - addLog[1].timestamp >= WindowMs
  /\ pc = "idle"

(***************************************************************************)
(* The tallies of extractFactsFromVtt (checked under Spec)                 *)
(***************************************************************************)
TalliedAs(t) == {e \in Episodes : tally[e] = t}

\* C36: while extractFactsFromVtt runs, the episodes before the current one
\* are each counted in exactly one of ok, fail and skipped; when it returns,
\* ok + fail + skipped is the number of input episodes, and ok is the number
\* of episodes whose facts.json the call wrote (one completed writeJson each).
C36_TallyConservation ==
  /\ pc \in {"prepare", "wait", "sleep", "request", "backoff", "tally", "returned"} =>
        /\ ok = Cardinality(TalliedAs("ok"))
        /\ fail = Cardinality(TalliedAs("fail"))
        /\ skipped = Cardinality(TalliedAs("skipped"))
        /\ \A e \in Episodes : (e < i) <=> (tally[e] \in {"ok", "fail", "skipped"})
        /\ ok + fail + skipped = i - 1
  /\ pc = "returned" =>
        /\ ok + fail + skipped = NumEpisodes
        /\ ok = Cardinality({e \in Episodes : wrote[e] >= 1})
        /\ \A e \in Episodes : wrote[e] <= 1
        /\ \A e \in TalliedAs("ok") : facts[e].exists /\ facts[e] # PartialFile

\* a call returned having written one episode and failed on the other
C36_Witness ==
  /\ pc = "returned"
  /\ ok = 1 /\ fail = 1 /\ skipped = 0
  /\ \E e \in Episodes : wrote[e] = 1 /\ tally[e] = "ok"

(***************************************************************************)
(* The copies of the standard-episode test (checked under SpecClassifier)  *)
(***************************************************************************)
\* a variant of the copy in retry-facts.ts without the exclusion by title
isStandard_retryFactExtraction_NoExclusion(m) ==
  LET hasNumber == Truthy(itunesEpisode(m)) /\ itunesEpisodeType(m) # "bonus"
      isFull == itunesEpisodeType(m) = "full"
      titleNumber == MatchesLeadingNumber(m.title)
  IN  hasNumber \/ isFull \/ titleNumber

\* retry-facts.ts, retryFactExtraction: hasEpisodeNumber, isFullEpisode,
\* titleHasNumber, titleHasCompilationOrBonus and isStandard of that function
isStandard_retryFactExtraction(m) ==
  LET hasNumber == Truthy(itunesEpisode(m)) /\ itunesEpisodeType(m) # "bonus"
      isFull == itunesEpisodeType(m) = "full"
      titleNumber == MatchesLeadingNumber(m.title)
      titleExcluded == \/ ContainsCompilation(LowerTitle(m.title))
                       \/ StartsWithBonus(LowerTitle(m.title))
  IN  (hasNumber \/ isFull \/ titleNumber) /\ ~titleExcluded

\* findEpisodesNeedingFacts: the same five constants of that function
isStandard_findEpisodesNeedingFacts(m) ==
  LET hasNumber == Truthy(itunesEpisode(m)) /\ itunesEpisodeType(m) # "bonus"
      isFull == itunesEpisodeType(m) = "full"
      titleNumber == MatchesLeadingNumber(m.title)
      titleExcluded == \/ ContainsCompilation(LowerTitle(m.title))
                       \/ StartsWithBonus(LowerTitle(m.title))
  IN  (hasNumber \/ isFull \/ titleNumber) /\ ~titleExcluded

\* C37: the tests of main() of process-episodes, of retryFactExtraction and
\* of findEpisodesNeedingFacts give the same answer for every metadata
\* value, so main(), where it applies its test (the episode has no
\* facts.json yet), queues an episode for the model exactly when the other
\* two entry points take it for a standard episode.
C37_CopiesAgree ==
  metadata # NoMetadata =>
    /\ isStandard(metadata) = isStandard_retryFactExtraction(metadata)
    /\ isStandard(metadata) = isStandard_findEpisodesNeedingFacts(metadata)
    /\ Classified =>
          /\ routed.queued = isStandard_retryFactExtraction(metadata)
          /\ routed.queued = isStandard_findEpisodesNeedingFacts(metadata)

\* an episode left out by its title alone, though numbered, was not queued
C37_Witness ==
  /\ metadata # NoMetadata
  /\ Classified /\ ~routed.queued
  /\ hasEpisodeNumber(metadata)
  /\ titleHasCompilationOrBonus(metadata)
  /\ ~isStandard_retryFactExtraction(metadata)

(***************************************************************************)
(* retry-facts.ts: retryFactExtraction for one episode identifier. The     *)
(* facts.json of the episode is the variable written, its metadata.json    *)
(* the variable metadata.                                                  *)
(***************************************************************************)
\* metadata.json values offered to the call
RetryMetadata == {m \in MetadataInputs : Len(m.title) <= 1}

Retrying(stage, before) == [stage |-> stage, before |-> before]
RetryReturned(result, why, before) ==
  [stage |-> "returned", result |-> result, why |-> why, before |-> before]
RetryThrew(before) == [stage |-> "threw", before |-> before]

rframe == <<metadata, routed, argv, toProcess, nvars, lvars, audio, dl,
            content, obj, parsedEpisode, rvars, tokensUsed, estimatedTokens,
            success, hvars, bvars, entry, exitCode, statsFailed, reported, preWork>>

InitRetry ==
  /\ apiKey \in BOOLEAN
  /\ InitRun
  /\ InitRetryIdle
  /\ InitDownloadIdle
  /\ InitNormalizerIdle
  /\ content = NoContent /\ obj = NoObj /\ parsedEpisode = NoResult
  /\ written \in {NoFile, File(GoodStandard), File(EmptyFacts("bonus"))}
  /\ metadata \in RetryMetadata
  /\ routed = NoRoute
  /\ argv = NoFlag
  /\ toProcess = NotSliced(<<>>)

\* findEpisodeByIdOrNumber returns null, or transcript.vtt does not exist,
\* or the episode is not standard: "return false" before anything is done.
RetryRefused ==
  /\ retry = NoRetry
  /\ \E found \in BOOLEAN, transcript \in BOOLEAN :
       LET why == IF ~found THEN "not found"
                  ELSE IF ~transcript THEN "no transcript"
                  ELSE IF ~isStandard_retryFactExtraction(metadata) THEN "not standard"
                  ELSE "none"
       IN  /\ why # "none"
           /\ retry' = RetryReturned(FALSE, why, written)
  /\ UNCHANGED <<written, apiKey, attempt, rframe>>

\* The episode was found, has a transcript and is standard: "Delete existing
\* facts.json if it exists".
RetryDelete ==
  /\ retry = NoRetry
  /\ isStandard_retryFactExtraction(metadata)
  /\ written' = NoFile
  /\ retry' = Retrying("deleted", written)
  /\ UNCHANGED <<apiKey, attempt, rframe>>

\* extractFactsFromVtt([vttPath], [episodeDir], true) throws without the
\* credential; the rejection goes through retryFactExtraction to main().
RetryMissingCredential ==
  /\ retry.stage = "deleted"
  /\ ~apiKey
  /\ retry' = RetryThrew(retry.before)
  /\ UNCHANGED <<written, apiKey, attempt, rframe>>

\* prepareVttFile returns null (the transcript cannot be read or parsed):
\* skipped = 1, result.ok = 0.
RetryPrepareFails ==
  /\ retry.stage = "deleted"
  /\ apiKey
  /\ retry' = RetryReturned(FALSE, "extraction failed", retry.before)
  /\ UNCHANGED <<written, apiKey, attempt, rframe>>

\* prepareVttFile returned the csv; extractFactsFromEpisode starts.
RetryPrepared ==
  /\ retry.stage = "deleted"
  /\ apiKey
  /\ retry' = Retrying("extracting", retry.before)
  /\ attempt' = 1
  /\ UNCHANGED <<written, apiKey, rframe>>

\* One attempt of extractFactsFromEpisode within the call, with the sleep
\* that may follow it; after the last attempt result.ok decides what
\* retryFactExtraction returns.
RetryAttempt ==
  /\ retry.stage = "extracting"
  /\ \E out \in ServiceOutcomes, w \in WriteOutcomes :
       LET res == AttemptResult(out, w)
           nxt == AfterFailure(res = "rate", attempt)
       IN
       /\ written' = IF ~ReachedWrite(out) THEN written
                     ELSE IF w = "written" THEN File(extractJson(out.text).value)
                     ELSE IF w = "rejected_partial" THEN PartialFile
                     ELSE written
       /\ IF res = "ok"
            THEN /\ retry' = RetryReturned(TRUE, "extracted", retry.before)
                 /\ UNCHANGED attempt
            ELSE IF nxt = "giveup"
            THEN /\ retry' = RetryReturned(FALSE, "extraction failed", retry.before)
                 /\ UNCHANGED attempt
            ELSE /\ attempt' = attempt + 1
                 /\ UNCHANGED retry
  /\ UNCHANGED <<apiKey, rframe>>

NextRetry ==
  \/ RetryRefused
  \/ RetryDelete
  \/ RetryMissingCredential
  \/ RetryPrepareFails
  \/ RetryPrepared
  \/ RetryAttempt

SpecRetry == InitRetry /\ [][NextRetry]_vars

\* C32: when retryFactExtraction has returned for a standard episode with a
\* transcript, facts.json exists if and only if the call returned true; when
\* it refused the episode (not found, no transcript, not standard), facts.json
\* is what it was before the call and the call returned false.
C32_ArtifactIffRetrySucceeded ==
  retry.stage = "returned" =>
    IF retry.why \in {"not found", "no transcript", "not standard"}
      THEN written = retry.before /\ ~retry.result
      ELSE written.exists <=> retry.result

(***************************************************************************)
(* downloadAudio(url, filename, maxRetries) for one file                   *)
(***************************************************************************)
MAX_RETRIES == 3

\* values of the parameter maxRetries
RetryLimits == 0..MAX_RETRIES

AudioFile == File("audio")

\* What one attempt meets: the body arrives and is written; fetch rejects
\* (network error or the 60 s timeout); the status is not ok; the body is
\* null; the file cannot be opened for writing; the stream breaks after a
\* part of the body was written.
FetchOutcomes == {"ok", "rejected", "http error", "no body", "open failed", "stream broke"}

\* fileExists and fs.unlink in the catch block: the file is removed, or the
\* unlink rejects and the inner catch only logs a warning.
UnlinkOutcomes == {"removed", "unlink failed"}

\* Math.pow(2, attempt) * 1000
DownloadDelayMs(a) == (2 ^ a) * 1000

\* The call in progress and the call returned. errors holds what logError
\* printed for the failed attempts, in order.
Downloading(stage, maxRetries, a, fetches, sleeps, errors) ==
  [stage |-> stage, maxRetries |-> maxRetries, attempt |-> a, fetches |-> fetches,
   sleeps |-> sleeps, errors |-> errors]
Downloaded(result, maxRetries, fetches, sleeps, errors, before) ==
  [stage |-> "returned", result |-> result, maxRetries |-> maxRetries,
   fetches |-> fetches, sleeps |-> sleeps, errors |-> errors, before |-> before]

dframe == <<retry, cvars, nvars, lvars, vvars, rvars, tvars, hvars, bvars, pvars>>

InitDownload ==
  /\ apiKey = TRUE
  /\ InitRun
  /\ InitRetryIdle
  /\ InitClassifierIdle
  /\ InitNormalizerIdle
  /\ InitValidatorIdle
  /\ audio \in {NoFile, AudioFile}
  /\ dl = NoDownload

\* "Check if already exists": the path is returned at once.
DownloadExisting ==
  /\ dl = NoDownload
  /\ audio.exists
  /\ \E maxRetries \in RetryLimits :
       dl' = Downloaded("path", maxRetries, 0, <<>>, <<>>, audio)
  /\ UNCHANGED <<audio, dframe>>

\* The file does not exist: the loop starts, or with maxRetries = 0 it is
\* passed over and the last line returns null.
DownloadStart ==
  /\ dl = NoDownload
  /\ ~audio.exists
  /\ \E maxRetries \in RetryLimits :
       dl' = IF maxRetries = 0
               THEN Downloaded("null", maxRetries, 0, <<>>, <<>>, audio)
               ELSE Downloading("fetch", maxRetries, 1, 0, <<>>, <<>>)
  /\ UNCHANGED <<audio, dframe>>

\* One iteration of the loop: the try block, and after a failure the catch
\* block up to "return null" or to the setTimeout.
DownloadAttempt ==
  /\ dl # NoDownload
  /\ dl.stage = "fetch"
  /\ \E outcome \in FetchOutcomes, unlink \in UnlinkOutcomes :
       LET afterTry == IF outcome = "stream broke" THEN PartialFile
                       ELSE IF outcome = "ok" THEN AudioFile
                       ELSE audio
           afterCatch == IF afterTry.exists /\ unlink = "removed" THEN NoFile
                         ELSE afterTry
       IN
       IF outcome = "ok"
         THEN /\ audio' = afterTry
              /\ dl' = Downloaded("path", dl.maxRetries, dl.fetches + 1, dl.sleeps,
                                   dl.errors, NoFile)
         ELSE /\ audio' = afterCatch
              /\ dl' = IF dl.attempt = dl.maxRetries
                        THEN Downloaded("null", dl.maxRetries, dl.fetches + 1, dl.sleeps,
                                        Append(dl.errors, outcome), NoFile)
                        ELSE Downloading("sleep", dl.maxRetries, dl.attempt,
                                         dl.fetches + 1, dl.sleeps,
                                         Append(dl.errors, outcome))
  /\ UNCHANGED dframe

\* The setTimeout of the backoff fires; attempt++.
DownloadSleep ==
  /\ dl # NoDownload
  /\ dl.stage = "sleep"
  /\ dl' = Downloading("fetch", dl.maxRetries, dl.attempt + 1, dl.fetches,
                        Append(dl.sleeps, DownloadDelayMs(dl.attempt)), dl.errors)
  /\ UNCHANGED <<audio, dframe>>

NextDownload ==
  \/ DownloadExisting
  \/ DownloadStart
  \/ DownloadAttempt
  \/ DownloadSleep

SpecDownload == InitDownload /\ [][NextDownload]_vars

\* C38: a call that found the file returns its path without a fetch; any
\* other call makes at most maxRetries fetches, has slept 2^k seconds after
\* its k-th failed attempt and not after the last, finds no file at the path
\* when an attempt starts, and leaves no file at the path when it returns
\* null.
C38_NullLeavesNoFile ==
  /\ (dl # NoDownload /\ dl.stage = "returned") =>
        /\ dl.before.exists => (dl.result = "path" /\ dl.fetches = 0 /\ audio = dl.before)
        /\ dl.fetches <= dl.maxRetries /\ dl.maxRetries <= MAX_RETRIES
        /\ dl.fetches >= 1 => Len(dl.sleeps) = dl.fetches - 1
        /\ \A k \in 1..Len(dl.sleeps) : dl.sleeps[k] = DownloadDelayMs(k)
        /\ dl.result = "null" => (dl.fetches = dl.maxRetries /\ ~audio.exists)
        /\ dl.result = "path" => audio = AudioFile
        /\ Len(dl.errors) = IF dl.result = "null" THEN dl.fetches
                            ELSE IF dl.fetches = 0 THEN 0 ELSE dl.fetches - 1
  /\ (dl # NoDownload /\ dl.stage \in {"fetch", "sleep"}) => ~audio.exists

====
